---- MODULE Spec2Model ----
(***************************************************************************)
(* Entity index, locator resolution and hierarchical type mapping of the   *)
(* DataM8 generator (dm8gen.Factory.Model, dm8gen.Helper.Helper,           *)
(* dm8gen.Factory.TypeMappingEngine and the registries behind it).         *)
(*                                                                         *)
(* Strings are sequences of one-character strings, so that lower-casing,   *)
(* concatenation, escaping and pattern matching are computed and not       *)
(* assumed.                                                                *)
(***************************************************************************)
EXTENDS Integers, Sequences, FiniteSets, TLC

VARIABLES
    files,       \* path -> document stored at that path (or no file)
    newer,       \* paths whose getmtime is greater than getmtime(path_index)
    index_file,  \* content of index.json, or the fact that it does not exist
    errors,      \* len(Model.errors), the class-level list all instances share
    alive,       \* FALSE once the process has ended, through sys.exit, an
                 \* exception nothing handles, or the return of its command
    out,         \* what the last operation returned or raised, and the
                 \* exceptions it appended to Model.errors
    sources,     \* the DataSources document the current engine has loaded
    mapping_cache, \* DataSourceFactory._mapping_cache, shared by all instances
    ds_errors,   \* len(DataSourceFactory.errors), a class-level list
    now,         \* time.time()
    pending,     \* the index a validate_index call has opened index.json
                 \* for and not yet dumped, or <<>>
    zones,       \* <<the Zones document the current ZonesFactory has
                 \* loaded>>, or <<>> while there is no ZonesFactory
    has_model,   \* TRUE when Model.__init__ has returned over that document
    zn_errors,   \* len(ZonesFactory.errors), a class-level list
    dst_loaded,  \* TRUE when a DataSourceTypesFactory has been constructed
    dst_errors,  \* len(DataSourceTypesFactory.errors), a class-level list
    oc_max_size, \* <<max_size>> of the OptimizedCache callers share, or <<>>
    oc_cache,    \* its _cache, an OrderedDict, as the sequence of its entries
    oc_stats,    \* its _stats
    oc_touched,  \* the keys in the order callers last touched them with set
                 \* or with a get that returned a value
    oc_calls,    \* the number of calls made on the cache
    oc_lock,     \* the thread that holds its _lock, or 0
    oc_threads,  \* thread -> where it is in its call on the cache, with the
                 \* local variables of the call
    generating   \* <<the action of the run of generate in progress and the
                 \* statement it has reached>>, or <<>>

ixvars == <<files, newer, index_file, errors>>

tmvars == <<sources, mapping_cache, ds_errors, now>>

znvars == <<zones, has_model, zn_errors, dst_loaded, dst_errors>>

ocvars == <<oc_max_size, oc_cache, oc_stats, oc_touched, oc_calls>>

\* The state of the zone registry, of the factories beside the index and of
\* the shared cache.
thvars == <<oc_lock, oc_threads>>

gnvars == <<generating>>

latervars == <<znvars, ocvars, thvars, gnvars>>

vars == <<files, newer, index_file, errors, alive, out,
          sources, mapping_cache, ds_errors, now, pending, latervars>>

----------------------------------------------------------------------------
(* Bounds *)

\* Model.errors grows without limit; an operation is followed only while the
\* list it leaves holds at most this many entries.
MaxErrors == 1

\* The calls followed on one OptimizedCache.
MaxCacheCalls == 5

\* The calls followed on an OptimizedCache that threads share.
MaxThreadCalls == 3

\* The errors a factory class may collect in one process.
MaxFactoryErrors == 2

----------------------------------------------------------------------------
(* Strings *)

UpperToLower ==
    [S |-> "s", C |-> "c", P |-> "p", A |-> "a", B |-> "b", X |-> "x"]

LowerChar(c) == IF c \in DOMAIN UpperToLower THEN UpperToLower[c] ELSE c

\* str.lower()
lower(s) == [i \in 1..Len(s) |-> LowerChar(s[i])]

\* str.startswith
startswith(s, prefix) ==
    /\ Len(s) >= Len(prefix)
    /\ SubSeq(s, 1, Len(prefix)) = prefix

----------------------------------------------------------------------------
(* Documents *)

\* What Helper.read_json finds at a path: no file, a file that is not JSON,
\* or a JSON object of which the top-level "type", the presence of the
\* top-level keys "function" and "entity", and entity.name are kept.
NoFile ==
    [kind |-> "absent", type |-> "", hasFunction |-> FALSE,
     hasEntity |-> FALSE, name |-> <<>>]

BadJson ==
    [kind |-> "bad", type |-> "", hasFunction |-> FALSE,
     hasEntity |-> FALSE, name |-> <<>>]

EntityDoc(n) ==
    [kind |-> "json", type |-> "entity", hasFunction |-> TRUE,
     hasEntity |-> TRUE, name |-> n]

LegacyDoc ==
    [kind |-> "json", type |-> "stage", hasFunction |-> TRUE,
     hasEntity |-> TRUE, name |-> <<"p">>]

\* The guard looking at the type alone.
detect_v1_schema_by_type(entity_json) ==
    entity_json.type \in {"raw", "stage", "core", "curated"}

\* Model.detect_v1_schema; type is entity_json.get("type", ""), so "" also
\* stands for a document without a type.
detect_v1_schema(entity_json) ==
    \/ entity_json.type \in {"raw", "stage", "core", "curated"}
    \/ /\ entity_json.hasFunction
       /\ entity_json.hasEntity
       /\ entity_json.type # "entity"

----------------------------------------------------------------------------
(* The model directory *)

\* Model.__get_index_items: the four collections in scan order.
get_index_items == <<"rawIndex", "stageIndex", "coreIndex", "curatedIndex">>

\* The entity files of the solution in os.walk order.  Each sits in
\* .../Model/<layer>/<product>/<module>/ below the folder of one zone.
WalkOrder == <<"f1", "f2", "f3">>

Paths == {WalkOrder[i] : i \in 1..Len(WalkOrder)}

PathInfo ==
    [f1 |-> [zone |-> "stageIndex", layer |-> <<"S", "t", "a", "g", "e">>,
             product |-> <<"a">>, module |-> <<"b">>],
     f2 |-> [zone |-> "stageIndex", layer |-> <<"S", "t", "a", "g", "e">>,
             product |-> <<"a">>, module |-> <<"b">>],
     f3 |-> [zone |-> "coreIndex", layer |-> <<"C", "o", "r", "e">>,
             product |-> <<"a">>, module |-> <<"b">>]]

\* Entity names a document may carry.
EntityNames == {<<"p">>, <<"P">>}

\* What a user may store at a path.
Documents(path) ==
    IF PathInfo[path].zone = "stageIndex"
    THEN {BadJson, LegacyDoc} \cup {EntityDoc(n) : n \in EntityNames}
    ELSE {EntityDoc(<<"p">>)}

\* os.path.exists
exists(fs, path) == fs[path].kind # "absent"

\* Helper.get_locator
Helper_get_locator(entity_type, data_product, data_module, entity_name) ==
    <<"/">> \o entity_type \o <<"/">> \o data_product \o <<"/">>
            \o data_module \o <<"/">> \o entity_name

\* UnifiedEntityFactory: layer, product and module come from the path,
\* the entity name from the document.
UnifiedLocator(path, doc) ==
    Helper_get_locator(lower(PathInfo[path].layer), PathInfo[path].product,
                       PathInfo[path].module, doc.name)

----------------------------------------------------------------------------
(* The index *)

EmptyIndex ==
    [rawIndex |-> <<>>, stageIndex |-> <<>>, coreIndex |-> <<>>,
     curatedIndex |-> <<>>]

NoIndexFile == [exists |-> FALSE, idx |-> EmptyIndex, complete |-> TRUE]

IndexFile(idx) == [exists |-> TRUE, idx |-> idx, complete |-> TRUE]

\* index.json after open(path_index, "w") and before json.dump has written
\* the whole document: the previous content is gone, the new one is not
\* there, and no reader can parse what there is.
TruncatedIndexFile == [exists |-> TRUE, idx |-> EmptyIndex, complete |-> FALSE]

\* An entry as Model.__get_index_entry builds it.
ScanEntry(path, doc) ==
    [absPath |-> path, name |-> doc.name, locator |-> UnifiedLocator(path, doc),
     references |->
        IF lower(PathInfo[path].layer) \in
                {<<"c", "o", "r", "e">>, <<"c", "u", "r", "a", "t", "e", "d">>}
        THEN "empty" ELSE "unset"]

\* An entry as Model.__get_refresh_index builds it.
RefreshEntry(path, doc) ==
    [absPath |-> path, name |-> doc.name, locator |-> UnifiedLocator(path, doc),
     references |-> "unset"]

\* Exceptions, with what their message names.
JsonFileParseException(path) ==
    [type |-> "JsonFileParseException", reason |-> "parse",
     file |-> path, locator |-> <<>>]

DuplicateLocatorError(entry) ==
    [type |-> "ValueError", reason |-> "duplicate locator",
     file |-> entry.absPath, locator |-> entry.locator]

DeprecatedSchemaError(path) ==
    [type |-> "ValueError", reason |-> "deprecated v1 schema",
     file |-> path, locator |-> <<>>]

FileNotFoundError(path) ==
    [type |-> "FileNotFoundError", reason |-> "no such file",
     file |-> path, locator |-> <<>>]

AttributeError ==
    [type |-> "AttributeError", reason |-> "None has no attribute index",
     file |-> "index.json", locator |-> <<>>]

OSError ==
    [type |-> "OSError", reason |-> "write failed",
     file |-> "index.json", locator |-> <<>>]

\* Files below the folder of a zone, in os.walk order.
FilesIn(zone) == SelectSeq(WalkOrder, LAMBDA f : PathInfo[f].zone = zone)

\* The scan without the check for the deprecated schema.
RECURSIVE get_index_entry_unguarded(_, _, _, _)
get_index_entry_unguarded(fs, ls, i, acc) ==
    IF i > Len(ls) THEN acc
    ELSE IF fs[ls[i]].kind = "absent"
    THEN get_index_entry_unguarded(fs, ls, i + 1, acc)
    ELSE IF fs[ls[i]].kind = "bad"
    THEN get_index_entry_unguarded(fs, ls, i + 1,
            [acc EXCEPT !.errs = Append(@, JsonFileParseException(ls[i]))])
    ELSE get_index_entry_unguarded(fs, ls, i + 1,
            [acc EXCEPT !.entry = Append(@, ScanEntry(ls[i], fs[ls[i]]))])

\* Model.__get_index_entry: entries of one zone folder and the parse errors
\* handed to __error_handler on the way.
RECURSIVE get_index_entry_from(_, _, _, _)
get_index_entry_from(fs, ls, i, acc) ==
    IF i > Len(ls) THEN acc
    ELSE LET path == ls[i]
             doc == fs[path]
         IN  IF doc.kind = "absent" THEN get_index_entry_from(fs, ls, i + 1, acc)
             ELSE IF doc.kind = "bad"
             THEN get_index_entry_from(fs, ls, i + 1,
                    [acc EXCEPT !.errs = Append(@, JsonFileParseException(path))])
             ELSE IF detect_v1_schema(doc)
             THEN get_index_entry_from(fs, ls, i + 1, acc)
             ELSE get_index_entry_from(fs, ls, i + 1,
                    [acc EXCEPT !.entry = Append(@, ScanEntry(path, doc))])

get_index_entry(fs, zone) ==
    get_index_entry_from(fs, FilesIn(zone), 1, [entry |-> <<>>, errs |-> <<>>])

\* list.remove: drops the first element equal to x.
RECURSIVE list_remove(_, _)
list_remove(ls, x) ==
    IF ls = <<>> THEN <<>>
    ELSE IF Head(ls) = x THEN Tail(ls)
    ELSE <<Head(ls)>> \o list_remove(Tail(ls), x)

\* The loop of Model.__get_clean_index_tuple over one collection: a for loop
\* over the list the body removes from, so the position advances after a
\* removal as it does after a kept entry.
RECURSIVE clean_entries(_, _, _, _)
clean_entries(fs, ls, i, locators) ==
    IF i > Len(ls) THEN [entry |-> ls, locators |-> locators]
    ELSE IF ~exists(fs, ls[i].absPath)
         THEN clean_entries(fs, list_remove(ls, ls[i]), i + 1, locators)
         ELSE clean_entries(fs, ls, i + 1, Append(locators, ls[i].locator))

RECURSIVE clean_zones(_, _, _, _)
clean_zones(fs, idx, z, locators) ==
    IF z > Len(get_index_items) THEN [index |-> idx, locators |-> locators]
    ELSE LET zone == get_index_items[z]
             r == clean_entries(fs, idx[zone], 1, locators)
         IN  clean_zones(fs, [idx EXCEPT ![zone] = r.entry], z + 1, r.locators)

\* Model.__get_clean_index_tuple
get_clean_index_tuple(fs, idx) == clean_zones(fs, idx, 1, <<>>)

InSeq(x, ls) == \E i \in 1..Len(ls) : ls[i] = x

\* The walk of Model.__get_refresh_index over the files of one zone folder.
\* acc.raised is set by a file that Helper.read_json cannot parse; the
\* exception leaves the walk.
RECURSIVE refresh_walk(_, _, _, _, _, _)
refresh_walk(fs, nw, zone, ls, i, acc) ==
    IF i > Len(ls) \/ acc.raised # <<>> THEN acc
    ELSE LET path == ls[i]
             doc == fs[path]
         IN  IF doc.kind = "absent" \/ path \notin nw
             THEN refresh_walk(fs, nw, zone, ls, i + 1, acc)
             ELSE IF doc.kind = "bad"
             THEN [acc EXCEPT !.raised = <<JsonFileParseException(path)>>]
             ELSE IF detect_v1_schema(doc)
             THEN refresh_walk(fs, nw, zone, ls, i + 1, acc)
             ELSE IF ~InSeq(UnifiedLocator(path, doc), acc.locators)
             THEN refresh_walk(fs, nw, zone, ls, i + 1,
                    [acc EXCEPT !.index[zone] = Append(@, RefreshEntry(path, doc))])
             ELSE refresh_walk(fs, nw, zone, ls, i + 1, acc)

RECURSIVE refresh_zones(_, _, _, _)
refresh_zones(fs, nw, z, acc) ==
    IF z > Len(get_index_items) THEN acc
    ELSE LET zone == get_index_items[z]
         IN  refresh_zones(fs, nw, z + 1,
                           refresh_walk(fs, nw, zone, FilesIn(zone), 1, acc))

\* Model.__get_refresh_index
get_refresh_index(fs, nw, idx) ==
    LET tpl == get_clean_index_tuple(fs, idx)
    IN  refresh_zones(fs, nw, 1,
            [index |-> tpl.index, locators |-> tpl.locators, raised |-> <<>>])

\* All entries of an index in the order of get_index_items.
AllEntries(idx) ==
    idx.rawIndex \o idx.stageIndex \o idx.coreIndex \o idx.curatedIndex

\* Model.__check_index_duplicates: the error it raises, or <<>>.
RECURSIVE check_from(_, _, _)
check_from(ls, i, ls_locators) ==
    IF i > Len(ls) THEN <<>>
    ELSE IF InSeq(ls[i].locator, ls_locators)
         THEN <<DuplicateLocatorError(ls[i])>>
         ELSE check_from(ls, i + 1, Append(ls_locators, ls[i].locator))

\* The check with a loop that starts at the second entry.
check_index_duplicates_from_second(idx) == check_from(AllEntries(idx), 2, <<>>)

check_index_duplicates(idx) == check_from(AllEntries(idx), 1, <<>>)

----------------------------------------------------------------------------
(* Locator resolution *)

\* The characters re.escape puts a backslash before.
SpecialChars ==
    {"|", ".", "^", "$", "*", "+", "?", "(", ")", "[", "]", "{", "}", "\\",
     "-", "&", "~", "#", " "}

\* re.escape
RECURSIVE re_escape(_)
re_escape(s) ==
    IF s = <<>> THEN <<>>
    ELSE (IF Head(s) \in SpecialChars THEN <<"\\", Head(s)>> ELSE <<Head(s)>>)
         \o re_escape(Tail(s))

\* re.search(r"^\/+.+\/.+\/.+\/.+$", s): k leading slashes, then four
\* non-empty runs of any characters but newline, separated by the slashes
\* at i1, i2, i3; "$" matches at the end or before a final newline.
re_search_locator(s) ==
    \E n \in {Len(s)} \cup
              (IF Len(s) > 0 /\ s[Len(s)] = "\n" THEN {Len(s) - 1} ELSE {}) :
    \E k \in 1..n :
        /\ \A j \in 1..k : s[j] = "/"
        /\ \A j \in (k + 1)..n : s[j] # "\n"
        /\ \E i1 \in (k + 2)..n :
            /\ s[i1] = "/"
            /\ \E i2 \in (i1 + 2)..n :
                /\ s[i2] = "/"
                /\ \E i3 \in (i2 + 2)..(n - 1) : s[i3] = "/"

\* get_locator comparing the pattern and the locators as they are written.
get_locator_case_sensitive(ixf, regex) ==
    IF ~re_search_locator(re_escape(regex))
    THEN [kind |-> "InvalidLocatorException", entry |-> <<>>]
    ELSE IF ~ixf.exists
    THEN [kind |-> "FileNotFoundError", entry |-> <<>>]
    ELSE LET ls_locators ==
                SelectSeq(AllEntries(ixf.idx), LAMBDA e : regex = e.locator)
         IN  IF Len(ls_locators) = 0
             THEN [kind |-> "LocatorNotFoundException", entry |-> <<>>]
             ELSE IF Len(ls_locators) # 1
             THEN [kind |-> "MultipleLocatorsFoundException",
                   entry |-> ls_locators]
             ELSE [kind |-> "ok", entry |-> ls_locators]

\* Model.get_locator: the exception it raises, or the matching entries.
get_locator(ixf, regex) ==
    IF ~re_search_locator(re_escape(regex))
    THEN [kind |-> "InvalidLocatorException", entry |-> <<>>]
    ELSE IF ~ixf.exists
    THEN [kind |-> "FileNotFoundError", entry |-> <<>>]
    ELSE LET ls_locators ==
                SelectSeq(AllEntries(ixf.idx),
                          LAMBDA e : lower(regex) = lower(e.locator))
         IN  IF Len(ls_locators) = 0
             THEN [kind |-> "LocatorNotFoundException", entry |-> <<>>]
             ELSE IF Len(ls_locators) # 1
             THEN [kind |-> "MultipleLocatorsFoundException",
                   entry |-> ls_locators]
             ELSE [kind |-> "ok", entry |-> ls_locators]

\* get_entity_factory without the check for the deprecated schema.
get_entity_factory_unguarded(fs, path) ==
    IF fs[path].kind = "absent" THEN <<FileNotFoundError(path)>>
    ELSE IF fs[path].kind = "bad" THEN <<JsonFileParseException(path)>>
    ELSE <<>>

\* Model.get_entity_factory: the exception it hands to __error_handler and
\* raises again, or <<>> when it returns a factory.
get_entity_factory(fs, path) ==
    IF fs[path].kind = "absent" THEN <<FileNotFoundError(path)>>
    ELSE IF fs[path].kind = "bad" THEN <<JsonFileParseException(path)>>
    ELSE IF detect_v1_schema(fs[path]) THEN <<DeprecatedSchemaError(path)>>
    ELSE <<>>

\* The UnifiedEntityFactory of the document at a path, by what it exposes.
UnifiedEntityFactory(fs, path) ==
    [absPath |-> path, name |-> fs[path].name,
     locator |-> UnifiedLocator(path, fs[path]), references |-> "unset"]

\* lookup_entity passing the locator on as it came.
with_leading_slash_missing(locator) == locator

\* The first lines of Model.lookup_entity.
with_leading_slash(locator) ==
    IF ~startswith(locator, <<"/">>) THEN <<"/">> \o locator ELSE locator

\* Model.lookup_entity: outcome and the error recorded, if any.
lookup_entity(fs, ixf, locator) ==
    LET loc == with_leading_slash(locator)
        locator_index == get_locator(ixf, loc)
    IN  IF locator_index.kind # "ok"
        THEN [kind |-> locator_index.kind, entry |-> <<>>, errs |-> <<>>]
        ELSE LET path == locator_index.entry[1].absPath
                 e == get_entity_factory(fs, path)
             IN  IF e # <<>>
                 THEN [kind |-> e[1].type, entry |-> <<>>, errs |-> e]
                 ELSE [kind |-> "ok",
                       entry |-> <<UnifiedEntityFactory(fs, path)>>,
                       errs |-> <<>>]

\* The index collection get_entity_list_by_layer walks for a layer: the raw
\* list is derived from the stage collection.
layer_index_name ==
    [raw |-> "stageIndex", stage |-> "stageIndex", core |-> "coreIndex",
     curated |-> "curatedIndex"]

\* Model.get_index: what reading index.json raises, or "ok".
get_index(ixf) ==
    IF ~ixf.exists THEN "FileNotFoundError"
    ELSE IF ~ixf.complete THEN "JsonFileParseException"
    ELSE "ok"

\* The exception of the first entry get_entity_factory raises on, if any.
RECURSIVE first_factory_error(_, _)
first_factory_error(fs, ls) ==
    IF ls = <<>> THEN <<>>
    ELSE IF get_entity_factory(fs, Head(ls).absPath) # <<>>
    THEN get_entity_factory(fs, Head(ls).absPath)
    ELSE first_factory_error(fs, Tail(ls))

\* Model.get_entity_list_by_layer: the entries of index.json whose entities
\* it returns, and what it hands to __error_handler.  For raw an entry whose
\* file does not load is skipped with a warning; for the other layers
\* get_entity_factory raises on it.
get_entity_list_by_layer(fs, ixf, layer) ==
    IF get_index(ixf) # "ok"
    THEN [kind |-> get_index(ixf), entry |-> <<>>, errs |-> <<>>]
    ELSE LET ls == ixf.idx[layer_index_name[layer]]
             e == first_factory_error(fs, ls)
         IN  IF layer = "raw"
             THEN [kind |-> "ok",
                   entry |-> SelectSeq(ls, LAMBDA x : fs[x.absPath].kind = "json"),
                   errs |-> <<>>]
             ELSE IF e # <<>>
             THEN [kind |-> e[1].type, entry |-> <<>>, errs |-> e]
             ELSE [kind |-> "ok", entry |-> ls, errs |-> <<>>]

\* The lists a caller reads one after the other, up to the first that
\* raises: the outcome of the last one read, the entries of the first, and
\* the errors recorded.
RECURSIVE entity_lists(_, _, _)
entity_lists(fs, ixf, layers) ==
    LET r == get_entity_list_by_layer(fs, ixf, Head(layers))
    IN  IF r.kind # "ok" \/ Len(layers) = 1 THEN r
        ELSE LET rest == entity_lists(fs, ixf, Tail(layers))
             IN  [kind |-> rest.kind, entry |-> r.entry, errs |-> rest.errs]

----------------------------------------------------------------------------
(* OptimizedCache *)

\* None, as get returns it for a key that is absent or expired.
None == "<None>"

\* A cache is the OrderedDict as a sequence of [key, value, created_at, ttl],
\* least recently used first.  last_accessed and access_count of an entry and
\* the counters of _stats are written and never read by get or set.
CacheEntry(key, value, ttl, t) ==
    [key |-> key, value |-> value, created_at |-> t, ttl |-> ttl]

\* CacheEntry.is_expired; every entry here has a ttl.
is_expired(entry, t) == t - entry.created_at > entry.ttl

\* key in self._cache
cache_contains(cache, key) == \E i \in 1..Len(cache) : cache[i].key = key

cache_entry(cache, key) ==
    cache[CHOOSE i \in 1..Len(cache) : cache[i].key = key]

\* del self._cache[key]
cache_del(cache, key) == SelectSeq(cache, LAMBDA e : e.key # key)

\* OrderedDict.move_to_end
move_to_end(cache, key) ==
    Append(cache_del(cache, key), cache_entry(cache, key))

\* get that leaves the order of the entries as it is.
OptimizedCache_get_in_place(cache, key, t) ==
    IF ~cache_contains(cache, key) THEN [value |-> None, cache |-> cache]
    ELSE IF is_expired(cache_entry(cache, key), t)
    THEN [value |-> None, cache |-> cache_del(cache, key)]
    ELSE [value |-> cache_entry(cache, key).value, cache |-> cache]

\* OptimizedCache.get: the value returned and the cache it leaves.
OptimizedCache_get(cache, key, t) ==
    IF ~cache_contains(cache, key) THEN [value |-> None, cache |-> cache]
    ELSE IF is_expired(cache_entry(cache, key), t)
    THEN [value |-> None, cache |-> cache_del(cache, key)]
    ELSE [value |-> cache_entry(cache, key).value,
          cache |-> move_to_end(cache, key)]

\* The eviction loop of OptimizedCache.set, entered with a non-empty cache:
\* _evict_lru pops the first item while len(self._cache) >= max_size.
RECURSIVE evict_lru_while(_, _)
evict_lru_while(cache, max_size) ==
    IF Len(cache) >= max_size /\ cache # <<>>
    THEN evict_lru_while(Tail(cache), max_size)
    ELSE cache

\* OptimizedCache.set with ttl=None.
OptimizedCache_set(cache, max_size, default_ttl, key, value, t) ==
    IF cache_contains(cache, key)
    THEN Append(cache_del(cache, key), CacheEntry(key, value, default_ttl, t))
    ELSE Append(evict_lru_while(cache, max_size),
                CacheEntry(key, value, default_ttl, t))

\* self._stats as __init__ and clear set it.
NoStats == [hits |-> 0, misses |-> 0, evictions |-> 0, expirations |-> 0]

\* The keys of the entries, in the order of the OrderedDict.
cache_keys(cache) == [i \in 1..Len(cache) |-> cache[i].key]

\* The threads that share the cache.
Threads == {1, 2}

\* A thread that is not in a call.
Idle ==
    [pc |-> "idle", op |-> "none", key |-> "", value |-> "",
     expired_keys |-> <<>>, seen |-> <<>>]

\* A lock that lets every thread enter.
lock_ignored(lock, th) == TRUE

\* threading.RLock: the thread may enter when no other thread holds it.
lock_free(lock, th) == lock = 0 \/ lock = th

\* OptimizedCache.cleanup_expired: the cache without its expired entries.
cleanup_expired(cache, t) == SelectSeq(cache, LAMBDA e : ~is_expired(e, t))

----------------------------------------------------------------------------
(* Type mapping *)

\* DataSourceFactory._mapping_cache = OptimizedCache(max_size=1000,
\* default_ttl=3600)
MappingCacheMaxSize == 1000

MappingCacheTtl == 3600

\* A dataTypeMapping item.
Mapping(sourceType, targetType) ==
    [sourceType |-> sourceType, targetType |-> targetType]

\* Names of data sources and source types, as callers and documents write
\* them.
SourceA == <<"a">>

SourceAB == <<"a", ":", "b">>

SourceZ == <<"z">>

Varchar == <<"v">>

Wide == <<"w">>

ColonVarchar == <<"b", ":", "v">>

\* No engine has been constructed in this process.
NoEngine == <<>>

\* The DataSources documents an engine may be constructed over: the items
\* with their name, type and dataTypeMapping.
PlainSources ==
    <<[name |-> SourceA, type |-> "SqlDataSource", dataTypeMapping |-> <<>>]>>

OverrideSources ==
    <<[name |-> SourceA, type |-> "SqlDataSource",
       dataTypeMapping |-> <<Mapping(Varchar, "string"),
                             Mapping(Varchar, "int")>>]>>

ColonSources ==
    <<[name |-> SourceA, type |-> "SqlDataSource",
       dataTypeMapping |-> <<Mapping(ColonVarchar, "int")>>],
      [name |-> SourceAB, type |-> "SqlDataSource",
       dataTypeMapping |-> <<Mapping(Varchar, "string")>>]>>

SourcesDocuments == {PlainSources, OverrideSources, ColonSources}

\* DataSourceTypes.json: the dataSourceTypes with their default mappings.
DataSourceTypes ==
    <<[name |-> "SqlDataSource",
       dataTypeMapping |-> <<Mapping(Varchar, "text"),
                             Mapping(Wide, "string")>>]>>

\* DataTypes.json: the items with their name, parquetType and capability
\* flags.
DataTypes ==
    <<[name |-> "UnicodeString", parquetType |-> "string",
       hasCharLen |-> TRUE, hasPrecision |-> FALSE, hasScale |-> FALSE],
      [name |-> "int", parquetType |-> "int32",
       hasCharLen |-> FALSE, hasPrecision |-> FALSE, hasScale |-> FALSE]>>

\* The public methods the two registries define.
DataSourceTypesFactoryMethods ==
    {"get_datasource_type", "get_datasource_type_list",
     "get_default_type_mapping", "get_connection_properties",
     "validate_connection_config", "get_required_properties",
     "get_optional_properties"}

DataTypesFactoryMethods == {"get_data_type", "get_data_type_list"}

\* DataSourceFactory.get_datasource: <<item>>, or <<>> for None; a name no
\* item has raises IndexError, which is handed to __error_handler.
get_datasource(doc, source_name) ==
    LET ls == SelectSeq(doc, LAMBDA i : i.name = source_name)
    IN  IF ls = <<>> THEN [item |-> <<>>, errs |-> 1]
        ELSE [item |-> <<ls[1]>>, errs |-> 0]

\* f"{source_name}:{source_type}"
cache_key(source_name, source_type) == source_name \o <<":">> \o source_type

\* DataSourceFactory.get_datasource_target_type: the value returned, the
\* cache it leaves and the number of errors it appended.
get_datasource_target_type(doc, cache, source_name, source_type, t) ==
    LET key == cache_key(source_name, source_type)
        cached == OptimizedCache_get(cache, key, t)
        source_item == get_datasource(doc, source_name)
        target_types ==
            SelectSeq(source_item.item[1].dataTypeMapping,
                      LAMBDA m : m.sourceType = source_type)
        target_type == IF Len(target_types) = 0 THEN "" ELSE target_types[1].targetType
    IN  IF cached.value # None
        THEN [value |-> cached.value, cache |-> cached.cache, errs |-> 0]
        ELSE IF source_item.item = <<>>
        THEN [value |-> "", cache |-> cached.cache,
              errs |-> source_item.errs + 1]
        ELSE [value |-> target_type,
              cache |-> OptimizedCache_set(cached.cache, MappingCacheMaxSize,
                                           MappingCacheTtl, key, target_type, t),
              errs |-> 0]

\* DataSourceTypesFactory.get_datasource_type: <<item>>, or <<>> for None.
get_datasource_type(type_name) ==
    LET ls == SelectSeq(DataSourceTypes, LAMBDA i : i.name = type_name)
    IN  IF ls = <<>> THEN <<>> ELSE <<ls[1]>>

\* TypeMappingEngine._get_datasource_type_mapping.  It calls
\* data_source_types_factory.get_datasourcetype; for a name the factory
\* does not define that is an AttributeError, which the method catches to
\* return None.
get_datasource_type_mapping(source_type_name, source_data_type) ==
    IF "get_datasourcetype" \notin DataSourceTypesFactoryMethods THEN None
    ELSE LET data_source_type == get_datasource_type(source_type_name)
             ls == SelectSeq(data_source_type[1].dataTypeMapping,
                             LAMBDA m : m.sourceType = source_data_type)
         IN  IF data_source_type = <<>> THEN None
             ELSE IF ls = <<>> THEN None
             ELSE ls[1].targetType

\* DataTypesFactory.get_data_type: <<item>> for the first item of that name.
get_data_type(datatype_name) ==
    LET ls == SelectSeq(DataTypes, LAMBDA i : i.name = datatype_name)
    IN  IF ls = <<>> THEN <<>> ELSE <<ls[1]>>

\* TypeMappingEngine._resolve_canonical_type.  It calls
\* data_types_factory.get_datatype; for a name the factory does not define
\* that is an AttributeError, which the method catches to return its input.
resolve_canonical_type(target_type) ==
    IF "get_datatype" \notin DataTypesFactoryMethods THEN target_type
    ELSE LET data_type == get_data_type(target_type)
         IN  IF data_type # <<>> /\ data_type[1].parquetType # ""
             THEN data_type[1].name
             ELSE target_type

\* TypeMappingEngine.resolve_type_mapping: the DataTypeMapping returned, with
\* the target type before _resolve_canonical_type as token, or the exception
\* raised; the cache it leaves and the number of errors appended to
\* DataSourceFactory.errors.
resolve_type_mapping(doc, cache, source_data_source_name, source_type, t) ==
    LET data_source == get_datasource(doc, source_data_source_name)
        own == get_datasource_target_type(doc, cache, source_data_source_name,
                                          source_type, t)
        target_type ==
            IF own.value # "" THEN own.value
            ELSE get_datasource_type_mapping(data_source.item[1].type,
                                             source_type)
    IN  IF data_source.item = <<>>
        THEN [kind |-> "ValueError", entry |-> <<>>, cache |-> cache,
              errs |-> data_source.errs]
        ELSE IF target_type \in {None, ""}
        THEN [kind |-> "ValueError", entry |-> <<>>, cache |-> own.cache,
              errs |-> own.errs]
        ELSE [kind |-> "ok",
              entry |-> <<[source_type |-> source_type,
                           target_type |-> resolve_canonical_type(target_type),
                           token |-> target_type]>>,
              cache |-> own.cache, errs |-> own.errs]

\* The dataclass DataTypeMapping.  An Optional[int] is <<>> for None and
\* <<n>> for the number n.
DataTypeMapping(source_type, target_type, nullable, char_len, precision, scale) ==
    [source_type |-> source_type, target_type |-> target_type,
     nullable |-> nullable, char_len |-> char_len, precision |-> precision,
     scale |-> scale]

\* TypeMappingEngine.create_attribute_mapping: the AttributeTypeMapping
\* returned, or the exception resolve_type_mapping raised; the cache it
\* leaves and the number of errors appended to DataSourceFactory.errors.
create_attribute_mapping(doc, cache, source_data_source_name, source_type, nullable, char_len, precision, scale, t) ==
    LET r == resolve_type_mapping(doc, cache, source_data_source_name,
                                  source_type, t)
    IN  IF r.kind # "ok" THEN r
        ELSE [r EXCEPT !.entry =
                <<[attribute_type |-> None,
                   source_data_type |->
                       DataTypeMapping(source_type, r.entry[1].target_type,
                                       nullable, char_len, precision, scale),
                   target_data_type |->
                       DataTypeMapping(r.entry[1].target_type,
                                       r.entry[1].target_type,
                                       nullable, char_len, precision, scale)]>>]

----------------------------------------------------------------------------
(* Outcomes *)

(* Zone registry *)

\* A zone of Zones.json; "" is an empty field.
Zone(name, targeName, displayName, localFolderName) ==
    [name |-> name, targeName |-> targeName, displayName |-> displayName,
     localFolderName |-> localFolderName]

\* ZonesFactory.get_zone: <<the first zone of that name>>, or <<>> for the
\* None it returns after the IndexError went to its __error_handler.
get_zone(doc, zone_name) ==
    LET found == SelectSeq(doc, LAMBDA z : z.name = zone_name)
    IN  IF found = <<>> THEN <<>> ELSE <<found[1]>>

\* The zones a validation reports as missing or incomplete.
missing_zones(doc) ==
    {i \in 1..Len(doc) :
        \E z \in {get_zone(doc, doc[i].name)[1]} :
            \/ z.targeName = ""
            \/ z.displayName = ""
            \/ z.localFolderName = ""}

\* Model._validate_zones_configuration: the exception it raises, or "ok".
validate_zones_configuration(doc) ==
    IF missing_zones(doc) # {} THEN "ValueError" ELSE "ok"

\* Model.get_zone_path_dynamic: the exception it raises or "ok", the number
\* of errors appended to Model.errors and to ZonesFactory.errors.
get_zone_path_dynamic(doc, zone_name) ==
    IF zone_name = "raw"
    THEN [kind |-> "ok", errs |-> 0, zn_errs |-> 0]
    ELSE IF get_zone(doc, zone_name) = <<>>
    THEN [kind |-> "ValueError", errs |-> 1, zn_errs |-> 1]
    ELSE IF get_zone(doc, zone_name)[1].localFolderName = ""
    THEN [kind |-> "ValueError", errs |-> 1, zn_errs |-> 0]
    ELSE [kind |-> "ok", errs |-> 0, zn_errs |-> 0]

----------------------------------------------------------------------------
(* Outcomes *)

\* validate_index returns None whatever happened; its kind is what it logged:
\* "generated", "refreshed", "generate failed", "refresh failed" (the
\* exception went to __error_handler) or "sys.exit".  The other operations
\* have "ok" or the class of the exception they raise.

Nothing ==
    [op |-> "none", arg |-> <<>>, kind |-> "none", entry |-> <<>>,
     errs |-> <<>>]

Outcome(op, arg, kind, entry, errs) ==
    [op |-> op, arg |-> arg, kind |-> kind, entry |-> entry, errs |-> errs]

----------------------------------------------------------------------------
(* Operations *)

Init ==
    /\ files = [p \in Paths |-> NoFile]
    /\ newer = {}
    /\ index_file = NoIndexFile
    /\ errors = 0
    /\ alive = TRUE
    /\ out = Nothing
    /\ sources = NoEngine
    /\ mapping_cache = <<>>
    /\ ds_errors = 0
    /\ now = 0
    /\ pending = <<>>
    /\ zones = <<>>
    /\ has_model = FALSE
    /\ zn_errors = 0
    /\ dst_loaded = FALSE
    /\ dst_errors = 0
    /\ oc_max_size = <<>>
    /\ oc_cache = <<>>
    /\ oc_stats = NoStats
    /\ oc_touched = <<>>
    /\ oc_calls = 0
    /\ oc_lock = 0
    /\ oc_threads = [th \in Threads |-> Idle]
    /\ generating = <<>>

\* A user stores a document at a path.
WriteFile(path, doc) ==
    /\ files' = [files EXCEPT ![path] = doc]
    /\ newer' = IF index_file.exists THEN newer \cup {path} ELSE {}
    /\ out' = Nothing
    /\ UNCHANGED <<index_file, errors, alive>>
    /\ UNCHANGED tmvars
    /\ UNCHANGED pending
    /\ UNCHANGED latervars

\* A user deletes a file.
DeleteFile(path) ==
    /\ exists(files, path)
    /\ files' = [files EXCEPT ![path] = NoFile]
    /\ newer' = newer \ {path}
    /\ out' = Nothing
    /\ UNCHANGED <<index_file, errors, alive>>
    /\ UNCHANGED tmvars
    /\ UNCHANGED pending
    /\ UNCHANGED latervars

\* A new process: the class attributes are fresh.
StartProcess ==
    /\ pending = <<>>
    /\ alive' = TRUE
    /\ errors' = 0
    /\ out' = Nothing
    /\ sources' = NoEngine
    /\ mapping_cache' = <<>>
    /\ ds_errors' = 0
    /\ zones' = <<>>
    /\ has_model' = FALSE
    /\ zn_errors' = 0
    /\ dst_loaded' = FALSE
    /\ dst_errors' = 0
    /\ oc_max_size' = <<>>
    /\ oc_cache' = <<>>
    /\ oc_stats' = NoStats
    /\ oc_touched' = <<>>
    /\ oc_calls' = 0
    /\ oc_lock' = 0
    /\ oc_threads' = [th \in Threads |-> Idle]
    /\ generating' = <<>>
    /\ UNCHANGED <<files, newer, index_file, now, pending>>

\* Model.validate_index, the branch that scans all zone folders.
FullBuild(arg) ==
    LET raw == get_index_entry(files, "rawIndex")
        stage == get_index_entry(files, "stageIndex")
        core == get_index_entry(files, "coreIndex")
        curated == get_index_entry(files, "curatedIndex")
        errs == raw.errs \o stage.errs \o core.errs \o curated.errs
        idx == [rawIndex |-> raw.entry, stageIndex |-> stage.entry,
                coreIndex |-> core.entry, curatedIndex |-> curated.entry]
        dup == check_index_duplicates(idx)
    IN  IF errors + Len(errs) > 0
        THEN /\ errors' = errors + Len(errs)
             /\ alive' = FALSE
             /\ out' = Outcome("validate_index", arg, "sys.exit", <<>>, errs)
             /\ UNCHANGED <<files, newer, index_file>>
        ELSE IF dup # <<>>
        THEN /\ errors' = errors + Len(dup)
             /\ out' = Outcome("validate_index", arg, "generate failed", <<>>, dup)
             /\ UNCHANGED <<files, newer, index_file, alive>>
        ELSE /\ index_file' = IndexFile(idx)
             /\ newer' = {}
             /\ out' = Outcome("validate_index", arg, "generated", <<>>, <<>>)
             /\ UNCHANGED <<files, errors, alive>>

\* Model.validate_index, the branch that refreshes the existing index.
Refresh(arg) ==
    LET r == get_refresh_index(files, newer, index_file.idx)
        dup == check_index_duplicates(r.index)
    IN  IF ~index_file.complete
        THEN \* get_index raises inside __get_clean_index_tuple, which handles
             \* it and returns None; __get_refresh_index then raises on
             \* None.index, which validate_index handles.
             /\ errors' = errors + 2
             /\ out' = Outcome("validate_index", arg, "refresh failed", <<>>,
                               <<JsonFileParseException("index.json"),
                                 AttributeError>>)
             /\ UNCHANGED <<files, newer, index_file, alive>>
        ELSE IF r.raised # <<>>
        THEN /\ errors' = errors + Len(r.raised)
             /\ out' = Outcome("validate_index", arg, "refresh failed", <<>>,
                               r.raised)
             /\ UNCHANGED <<files, newer, index_file, alive>>
        ELSE IF dup # <<>>
        THEN /\ errors' = errors + Len(dup)
             /\ out' = Outcome("validate_index", arg, "refresh failed", <<>>, dup)
             /\ UNCHANGED <<files, newer, index_file, alive>>
        ELSE /\ index_file' = IndexFile(r.index)
             /\ newer' = {}
             /\ out' = Outcome("validate_index", arg, "refreshed", <<>>, <<>>)
             /\ UNCHANGED <<files, errors, alive>>

\* Model.validate_index
validate_index(full_index_scan) ==
    /\ alive
    /\ IF full_index_scan \/ ~index_file.exists
       THEN FullBuild(<<full_index_scan>>)
       ELSE Refresh(<<full_index_scan>>)
    /\ errors' <= MaxErrors
    /\ UNCHANGED tmvars
    /\ UNCHANGED pending
    /\ UNCHANGED latervars

\* What a validate_index call has in hand when it reaches its write: the
\* index to persist, and whether it reaches the write at all.
ValidatedIndex(full_index_scan) ==
    IF full_index_scan \/ ~index_file.exists
    THEN LET raw == get_index_entry(files, "rawIndex")
             stage == get_index_entry(files, "stageIndex")
             core == get_index_entry(files, "coreIndex")
             curated == get_index_entry(files, "curatedIndex")
             errs == raw.errs \o stage.errs \o core.errs \o curated.errs
             idx == [rawIndex |-> raw.entry, stageIndex |-> stage.entry,
                     coreIndex |-> core.entry, curatedIndex |-> curated.entry]
         IN  [writes |-> /\ errors + Len(errs) = 0
                         /\ check_index_duplicates(idx) = <<>>,
              idx |-> idx, done |-> "generated", failed |-> "generate failed"]
    ELSE IF ~index_file.complete
    THEN [writes |-> FALSE, idx |-> EmptyIndex, done |-> "refreshed",
          failed |-> "refresh failed"]
    ELSE LET r == get_refresh_index(files, newer, index_file.idx)
         IN  [writes |-> /\ r.raised = <<>>
                         /\ check_index_duplicates(r.index) = <<>>,
              idx |-> r.index, done |-> "refreshed",
              failed |-> "refresh failed"]

\* Model.validate_index up to and including open(path_index, "w"), which
\* truncates index.json; a call that does not reach the write ends here.
BeginValidateIndex(full_index_scan) ==
    /\ alive
    /\ pending = <<>>
    /\ \E v \in {ValidatedIndex(full_index_scan)} :
          IF v.writes
          THEN /\ index_file' = TruncatedIndexFile
               /\ pending' = <<[arg |-> <<full_index_scan>>, idx |-> v.idx,
                                done |-> v.done, failed |-> v.failed,
                                previous |-> index_file]>>
               /\ out' = Nothing
               /\ UNCHANGED <<files, newer, errors, alive>>
               /\ UNCHANGED tmvars
               /\ UNCHANGED latervars
          ELSE validate_index(full_index_scan)

\* json.dump writes the whole document and the with block closes the file.
json_dump ==
    /\ alive
    /\ pending # <<>>
    /\ index_file' = IndexFile(pending[1].idx)
    /\ newer' = {}
    /\ out' = Outcome("validate_index", pending[1].arg, pending[1].done,
                      <<>>, <<>>)
    /\ pending' = <<>>
    /\ UNCHANGED <<files, errors, alive>>
    /\ UNCHANGED tmvars
    /\ UNCHANGED latervars

\* json.dump raises while writing (the disk is full, the volume is gone):
\* the with block closes the file, validate_index hands the exception to
\* __error_handler and returns.
json_dump_raises ==
    /\ alive
    /\ pending # <<>>
    /\ errors + 1 <= MaxErrors
    /\ errors' = errors + 1
    /\ out' = Outcome("validate_index", pending[1].arg, pending[1].failed,
                      <<>>, <<OSError>>)
    /\ pending' = <<>>
    /\ UNCHANGED <<files, newer, index_file, alive>>
    /\ UNCHANGED tmvars
    /\ UNCHANGED latervars

\* The process is killed between open and the end of json.dump.
Interrupt ==
    /\ alive
    /\ pending # <<>>
    /\ alive' = FALSE
    /\ out' = Outcome("validate_index", pending[1].arg, "killed", <<>>, <<>>)
    /\ pending' = <<>>
    /\ UNCHANGED <<files, newer, index_file, errors>>
    /\ UNCHANGED tmvars
    /\ UNCHANGED latervars

\* A caller resolves a pattern with Model.get_locator.
GetLocator(regex) ==
    /\ alive
    /\ \E r \in {get_locator(index_file, regex)} :
           out' = Outcome("get_locator", regex, r.kind, r.entry, <<>>)
    /\ UNCHANGED <<files, newer, index_file, errors, alive>>
    /\ UNCHANGED tmvars
    /\ UNCHANGED pending
    /\ UNCHANGED latervars

\* A caller looks an entity up with Model.lookup_entity.
LookupEntity(locator) ==
    /\ alive
    /\ \E r \in {lookup_entity(files, index_file, locator)} :
           /\ out' = Outcome("lookup_entity", locator, r.kind, r.entry, r.errs)
           /\ errors' = errors + Len(r.errs)
    /\ errors' <= MaxErrors
    /\ UNCHANGED <<files, newer, index_file, alive>>
    /\ UNCHANGED tmvars
    /\ UNCHANGED pending
    /\ UNCHANGED latervars

\* generate: the command starts in a new process, reads the solution file
\* and constructs the Model.
Generate(action) ==
    /\ alive
    /\ errors = 0
    /\ pending = <<>>
    /\ generating = <<>>
    /\ generating' = <<[action |-> action,
                        pc |-> IF action = "validate_index"
                               THEN "validate_index"
                               ELSE "perform_initial_checks"]>>
    /\ out' = Nothing
    /\ UNCHANGED alive
    /\ UNCHANGED ixvars
    /\ UNCHANGED tmvars
    /\ UNCHANGED pending
    /\ UNCHANGED znvars
    /\ UNCHANGED ocvars
    /\ UNCHANGED thvars

\* The layers generate passes to perform_initial_checks.
checked_layers(action) ==
    IF action = "generate_template" THEN <<"raw", "stage", "core">>
    ELSE <<"raw">>

\* generate calls Model.perform_initial_checks, which reads the entity list
\* of each layer it is given, raw first.  Nothing in generate handles an
\* exception: it ends the process.
PerformInitialChecks ==
    /\ alive
    /\ generating # <<>>
    /\ generating[1].pc = "perform_initial_checks"
    /\ \E r \in {entity_lists(files, index_file,
                              checked_layers(generating[1].action))} :
          /\ out' = Outcome("perform_initial_checks",
                            <<generating[1].action>>,
                            IF r.kind = "ok" THEN "served" ELSE r.kind,
                            r.entry, r.errs)
          /\ errors' = errors + Len(r.errs)
          /\ alive' = (r.kind = "ok")
          /\ generating' =
                IF r.kind # "ok" THEN <<>>
                ELSE <<[generating[1] EXCEPT !.pc =
                            IF generating[1].action = "refresh_generate"
                            THEN "validate_index" ELSE "generate_template"]>>
    /\ errors' <= MaxErrors
    /\ UNCHANGED <<files, newer, index_file>>
    /\ UNCHANGED tmvars
    /\ UNCHANGED pending
    /\ UNCHANGED znvars
    /\ UNCHANGED ocvars
    /\ UNCHANGED thvars

\* generate calls Model.validate_index: with the --full-index-scan option
\* for the action validate_index, after which the command returns, and with
\* full_index_scan=True for refresh_generate.
GenerateValidateIndex(full_index_scan) ==
    /\ alive
    /\ generating # <<>>
    /\ generating[1].pc = "validate_index"
    /\ generating[1].action = "refresh_generate" => full_index_scan
    /\ IF full_index_scan \/ ~index_file.exists
       THEN FullBuild(<<full_index_scan>>)
       ELSE Refresh(<<full_index_scan>>)
    /\ errors' <= MaxErrors
    /\ generating' =
          IF ~alive' THEN <<>>
          ELSE <<[generating[1] EXCEPT !.pc =
                      IF generating[1].action = "validate_index"
                      THEN "return" ELSE "generate_template"]>>
    /\ UNCHANGED tmvars
    /\ UNCHANGED pending
    /\ UNCHANGED znvars
    /\ UNCHANGED ocvars
    /\ UNCHANGED thvars

\* generate returns and the process ends.
Return_generate ==
    /\ alive
    /\ generating # <<>>
    /\ generating[1].pc = "return"
    /\ alive' = FALSE
    /\ generating' = <<>>
    /\ UNCHANGED out
    /\ UNCHANGED ixvars
    /\ UNCHANGED tmvars
    /\ UNCHANGED pending
    /\ UNCHANGED znvars
    /\ UNCHANGED ocvars
    /\ UNCHANGED thvars

\* generate calls Jinja2Factory.generate_template, whose template context
\* holds the entity lists of the four layers.
GenerateTemplate ==
    /\ alive
    /\ generating # <<>>
    /\ generating[1].pc = "generate_template"
    /\ \E r \in {entity_lists(files, index_file,
                              <<"raw", "stage", "core", "curated">>)} :
          /\ out' = Outcome("generate_template", <<generating[1].action>>,
                            IF r.kind = "ok" THEN "rendered" ELSE r.kind,
                            r.entry, r.errs)
          /\ errors' = errors + Len(r.errs)
          /\ alive' = (r.kind = "ok")
          /\ generating' =
                IF r.kind # "ok" THEN <<>>
                ELSE <<[generating[1] EXCEPT !.pc = "return"]>>
    /\ errors' <= MaxErrors
    /\ UNCHANGED <<files, newer, index_file>>
    /\ UNCHANGED tmvars
    /\ UNCHANGED pending
    /\ UNCHANGED znvars
    /\ UNCHANGED ocvars
    /\ UNCHANGED thvars

\* A caller classifies a parsed document with Model.detect_v1_schema.
DetectSchema(entity_json) ==
    /\ alive
    /\ out' = Outcome("detect_v1_schema", entity_json,
                      IF detect_v1_schema(entity_json) THEN "True" ELSE "False",
                      <<>>, <<>>)
    /\ UNCHANGED <<alive>>
    /\ UNCHANGED ixvars
    /\ UNCHANGED pending
    /\ UNCHANGED latervars
    /\ UNCHANGED tmvars

\* The parsed documents a caller may classify.
SchemaTypes ==
    {"", "raw", "stage", "core", "curated", "entity", "Stage", "RAW",
     "dataType"}

SchemaDocuments ==
    [kind : {"json"}, type : SchemaTypes, hasFunction : BOOLEAN,
     hasEntity : BOOLEAN, name : EntityNames \cup {<<>>}]

\* Model.__init__ over a solution whose Zones.json holds doc: the zones
\* property constructs the ZonesFactory, _validate_zones_configuration
\* raises or returns.
NewModel(doc) ==
    /\ alive
    /\ zones' = <<doc>>
    /\ has_model' = (validate_zones_configuration(doc) = "ok")
    /\ out' = Outcome("Model", doc, validate_zones_configuration(doc),
                      <<>>, <<>>)
    /\ UNCHANGED <<zn_errors, dst_loaded, dst_errors, alive, pending>>
    /\ UNCHANGED ixvars
    /\ UNCHANGED tmvars
    /\ UNCHANGED ocvars
    /\ UNCHANGED thvars
    /\ UNCHANGED gnvars

\* A caller asks the Model for the folder of a zone (path_stage, path_core,
\* path_curated and the raw path go through get_zone_path_dynamic).
GetZonePath(zone_name) ==
    /\ alive
    /\ has_model
    /\ \E r \in {get_zone_path_dynamic(zones[1], zone_name)} :
          /\ errors' = errors + r.errs
          /\ zn_errors' = zn_errors + r.zn_errs
          /\ out' = Outcome("get_zone_path_dynamic", zone_name, r.kind,
                            <<>>, <<>>)
    /\ errors' <= MaxErrors
    /\ zn_errors' <= MaxFactoryErrors
    /\ UNCHANGED <<files, newer, index_file>>
    /\ UNCHANGED <<zones, has_model, dst_loaded, dst_errors, alive, pending>>
    /\ UNCHANGED tmvars
    /\ UNCHANGED ocvars
    /\ UNCHANGED thvars
    /\ UNCHANGED gnvars

\* A caller constructs a ZonesFactory over a Zones.json that holds doc.
NewZonesFactory(doc) ==
    /\ alive
    /\ zones' = <<doc>>
    /\ has_model' = FALSE
    /\ out' = Outcome("ZonesFactory", doc, "ok", <<>>, <<>>)
    /\ UNCHANGED <<zn_errors, dst_loaded, dst_errors, alive, pending>>
    /\ UNCHANGED ixvars
    /\ UNCHANGED tmvars
    /\ UNCHANGED ocvars
    /\ UNCHANGED thvars
    /\ UNCHANGED gnvars

\* A caller asks the current ZonesFactory for a zone.
GetZone(zone_name) ==
    /\ alive
    /\ zones # <<>>
    /\ \E r \in {get_zone(zones[1], zone_name)} :
          /\ zn_errors' = zn_errors + (IF r = <<>> THEN 1 ELSE 0)
          /\ out' = Outcome("get_zone", zone_name,
                            IF r = <<>> THEN None ELSE "ok", r, <<>>)
    /\ zn_errors' <= MaxFactoryErrors
    /\ UNCHANGED <<zones, has_model, dst_loaded, dst_errors, alive, pending>>
    /\ UNCHANGED ixvars
    /\ UNCHANGED tmvars
    /\ UNCHANGED ocvars
    /\ UNCHANGED thvars
    /\ UNCHANGED gnvars

\* A caller constructs a DataSourceTypesFactory over DataSourceTypes.json.
NewDataSourceTypesFactory ==
    /\ alive
    /\ dst_loaded' = TRUE
    /\ out' = Outcome("DataSourceTypesFactory", <<>>, "ok", <<>>, <<>>)
    /\ UNCHANGED <<zones, has_model, zn_errors, dst_errors, alive, pending>>
    /\ UNCHANGED ixvars
    /\ UNCHANGED tmvars
    /\ UNCHANGED ocvars
    /\ UNCHANGED thvars
    /\ UNCHANGED gnvars

\* A caller asks the current DataSourceTypesFactory for a type; a name no
\* item has raises IndexError, which goes to __error_handler.
GetDataSourceType(type_name) ==
    /\ alive
    /\ dst_loaded
    /\ \E r \in {get_datasource_type(type_name)} :
          /\ dst_errors' = dst_errors + (IF r = <<>> THEN 1 ELSE 0)
          /\ out' = Outcome("get_datasource_type", type_name,
                            IF r = <<>> THEN None ELSE "ok", r, <<>>)
    /\ dst_errors' <= MaxFactoryErrors
    /\ UNCHANGED <<zones, has_model, zn_errors, dst_loaded, alive, pending>>
    /\ UNCHANGED ixvars
    /\ UNCHANGED tmvars
    /\ UNCHANGED ocvars
    /\ UNCHANGED thvars
    /\ UNCHANGED gnvars

\* The key moves to the end of the keys callers have touched.
touch(touched, key) == Append(SelectSeq(touched, LAMBDA k : k # key), key)

\* A caller constructs the OptimizedCache the others will share.
NewCache(max_size) ==
    /\ alive
    /\ \A th \in Threads : oc_threads[th].pc = "idle"
    /\ oc_max_size' = <<max_size>>
    /\ oc_cache' = <<>>
    /\ oc_stats' = NoStats
    /\ oc_touched' = <<>>
    /\ oc_calls' = 0
    /\ out' = Outcome("OptimizedCache", <<max_size>>, "ok", <<>>, <<>>)
    /\ UNCHANGED <<alive, pending>>
    /\ UNCHANGED ixvars
    /\ UNCHANGED tmvars
    /\ UNCHANGED znvars
    /\ UNCHANGED thvars
    /\ UNCHANGED gnvars

\* OptimizedCache.get
CacheGet(key) ==
    /\ alive
    /\ oc_max_size # <<>>
    /\ oc_calls < MaxCacheCalls
    /\ oc_calls' = oc_calls + 1
    /\ \E r \in {OptimizedCache_get(oc_cache, key, now)} :
          /\ oc_cache' = r.cache
          /\ oc_touched' = IF r.value # None THEN touch(oc_touched, key)
                            ELSE oc_touched
          /\ out' = Outcome("get", key, "ok", <<r.value>>, <<>>)
    /\ oc_stats' =
          IF ~cache_contains(oc_cache, key)
          THEN [oc_stats EXCEPT !.misses = @ + 1]
          ELSE IF is_expired(cache_entry(oc_cache, key), now)
          THEN [oc_stats EXCEPT !.expirations = @ + 1, !.misses = @ + 1]
          ELSE [oc_stats EXCEPT !.hits = @ + 1]
    /\ UNCHANGED <<oc_max_size, alive, pending>>
    /\ UNCHANGED ixvars
    /\ UNCHANGED tmvars
    /\ UNCHANGED znvars
    /\ UNCHANGED thvars
    /\ UNCHANGED gnvars

\* OptimizedCache.set.  With max_size = 0 and a key the cache does not hold
\* the eviction loop finds len(self._cache) >= self.max_size true and
\* nothing to pop, for ever: the call does not return.
CacheSet(key, value) ==
    /\ alive
    /\ oc_max_size # <<>>
    /\ oc_calls < MaxCacheCalls
    /\ oc_calls' = oc_calls + 1
    /\ IF ~cache_contains(oc_cache, key) /\ oc_max_size[1] <= 0
       THEN /\ alive' = FALSE
            /\ out' = Outcome("set", <<key, value>>, "no return", <<>>, <<>>)
            /\ UNCHANGED <<oc_cache, oc_stats, oc_touched>>
       ELSE /\ oc_cache' = OptimizedCache_set(oc_cache, oc_max_size[1],
                                              MappingCacheTtl, key, value, now)
            /\ oc_stats' =
                  IF cache_contains(oc_cache, key) THEN oc_stats
                  ELSE [oc_stats EXCEPT !.evictions =
                          @ + Len(oc_cache)
                            - Len(evict_lru_while(oc_cache, oc_max_size[1]))]
            /\ oc_touched' = touch(oc_touched, key)
            /\ out' = Outcome("set", <<key, value>>, "ok", <<>>, <<>>)
            /\ UNCHANGED alive
    /\ UNCHANGED <<oc_max_size, pending>>
    /\ UNCHANGED ixvars
    /\ UNCHANGED tmvars
    /\ UNCHANGED znvars
    /\ UNCHANGED thvars
    /\ UNCHANGED gnvars

\* OptimizedCache.invalidate
CacheInvalidate(key) ==
    /\ alive
    /\ oc_max_size # <<>>
    /\ oc_calls < MaxCacheCalls
    /\ oc_calls' = oc_calls + 1
    /\ oc_cache' = cache_del(oc_cache, key)
    /\ out' = Outcome("invalidate", key, "ok",
                      <<cache_contains(oc_cache, key)>>, <<>>)
    /\ UNCHANGED <<oc_max_size, oc_stats, oc_touched, alive, pending>>
    /\ UNCHANGED ixvars
    /\ UNCHANGED tmvars
    /\ UNCHANGED znvars
    /\ UNCHANGED thvars
    /\ UNCHANGED gnvars

\* OptimizedCache.clear
CacheClear ==
    /\ alive
    /\ oc_max_size # <<>>
    /\ oc_calls < MaxCacheCalls
    /\ oc_calls' = oc_calls + 1
    /\ oc_cache' = <<>>
    /\ oc_stats' = NoStats
    /\ out' = Outcome("clear", <<>>, "ok", <<>>, <<>>)
    /\ UNCHANGED <<oc_max_size, oc_touched, alive, pending>>
    /\ UNCHANGED ixvars
    /\ UNCHANGED tmvars
    /\ UNCHANGED znvars
    /\ UNCHANGED thvars
    /\ UNCHANGED gnvars

\* OptimizedCache.cleanup_expired
CacheCleanupExpired ==
    /\ alive
    /\ oc_max_size # <<>>
    /\ oc_calls < MaxCacheCalls
    /\ oc_calls' = oc_calls + 1
    /\ oc_cache' = cleanup_expired(oc_cache, now)
    /\ oc_stats' = [oc_stats EXCEPT !.expirations =
                       @ + Len(oc_cache) - Len(cleanup_expired(oc_cache, now))]
    /\ out' = Outcome("cleanup_expired", <<>>, "ok",
                      <<Len(oc_cache) - Len(cleanup_expired(oc_cache, now))>>,
                      <<>>)
    /\ UNCHANGED <<oc_max_size, oc_touched, alive, pending>>
    /\ UNCHANGED ixvars
    /\ UNCHANGED tmvars
    /\ UNCHANGED znvars
    /\ UNCHANGED thvars
    /\ UNCHANGED gnvars

\* What one call leaves when no other call runs beside it: the cache, the
\* statistics and the value returned.
sequential_call(op, key, value, cache, stats, max_size, t) ==
    IF op = "get"
    THEN [cache |-> OptimizedCache_get(cache, key, t).cache,
          stats |-> IF ~cache_contains(cache, key)
                    THEN [stats EXCEPT !.misses = @ + 1]
                    ELSE IF is_expired(cache_entry(cache, key), t)
                    THEN [stats EXCEPT !.expirations = @ + 1,
                                       !.misses = @ + 1]
                    ELSE [stats EXCEPT !.hits = @ + 1],
          result |-> <<OptimizedCache_get(cache, key, t).value>>]
    ELSE IF op = "set"
    THEN [cache |-> OptimizedCache_set(cache, max_size, MappingCacheTtl, key,
                                       value, t),
          stats |-> IF cache_contains(cache, key) THEN stats
                    ELSE [stats EXCEPT !.evictions =
                            @ + Len(cache)
                              - Len(evict_lru_while(cache, max_size))],
          result |-> <<None>>]
    ELSE IF op = "invalidate"
    THEN [cache |-> cache_del(cache, key), stats |-> stats,
          result |-> <<cache_contains(cache, key)>>]
    ELSE IF op = "clear"
    THEN [cache |-> <<>>, stats |-> NoStats, result |-> <<None>>]
    ELSE [cache |-> cleanup_expired(cache, t),
          stats |-> [stats EXCEPT !.expirations =
                       @ + Len(cache) - Len(cleanup_expired(cache, t))],
          result |-> <<Len(cache) - Len(cleanup_expired(cache, t))>>]

\* A thread calls a method of the shared cache.
Call(th, op, key, value) ==
    /\ alive
    /\ oc_max_size # <<>>
    /\ oc_threads[th].pc = "idle"
    /\ oc_calls < MaxThreadCalls
    /\ oc_calls' = oc_calls + 1
    /\ oc_threads' = [oc_threads EXCEPT ![th] =
                        [Idle EXCEPT !.pc = "with self._lock", !.op = op,
                                     !.key = key, !.value = value]]
    /\ out' = Nothing
    /\ UNCHANGED <<oc_max_size, oc_cache, oc_stats, oc_touched, oc_lock>>
    /\ UNCHANGED <<alive, pending>>
    /\ UNCHANGED ixvars
    /\ UNCHANGED tmvars
    /\ UNCHANGED znvars
    /\ UNCHANGED gnvars

\* The first statement of a method inside its "with self._lock".
first_statement(op) ==
    IF op = "get" THEN "if key not in self._cache"
    ELSE IF op = "set" THEN "if key in self._cache"
    ELSE IF op = "invalidate" THEN "if key in self._cache"
    ELSE IF op = "clear" THEN "self._cache.clear()"
    ELSE "for key, entry in self._cache.items()"

\* The thread goes on to a statement of its method.
Goto(th, pc) ==
    /\ oc_threads' = [oc_threads EXCEPT ![th].pc = pc]
    /\ out' = Nothing
    /\ UNCHANGED oc_lock

\* The thread leaves the with block and its method returns or raises.
Return(th, kind, result) ==
    /\ oc_threads' = [oc_threads EXCEPT ![th] = Idle]
    /\ oc_lock' = 0
    /\ out' = Outcome(oc_threads[th].op,
                      <<oc_threads[th].key, oc_threads[th].value>>, kind,
                      <<result>>, <<>>)

\* self._cache[key] = CacheEntry(value, ttl)
cache_assign(cache, key, value, t) ==
    IF cache_contains(cache, key)
    THEN [i \in 1..Len(cache) |->
            IF cache[i].key = key
            THEN CacheEntry(key, value, MappingCacheTtl, t) ELSE cache[i]]
    ELSE Append(cache, CacheEntry(key, value, MappingCacheTtl, t))

\* The thread enters the with block of its method.
Enter(th) ==
    /\ oc_threads[th].pc = "with self._lock"
    /\ lock_free(oc_lock, th)
    /\ oc_lock' = th
    /\ oc_threads' = [oc_threads EXCEPT
          ![th].pc = first_statement(oc_threads[th].op),
          ![th].seen = <<[cache |-> oc_cache, stats |-> oc_stats,
                          t |-> now]>>]
    /\ out' = Nothing
    /\ UNCHANGED <<oc_cache, oc_stats, oc_touched>>

\* The statements of OptimizedCache.get
GetStep(th, key) ==
    \/ /\ oc_threads[th].pc = "if key not in self._cache"
       /\ IF ~cache_contains(oc_cache, key)
          THEN /\ oc_stats' = [oc_stats EXCEPT !.misses = @ + 1]
               /\ Return(th, "ok", None)
          ELSE /\ Goto(th, "entry = self._cache[key]")
               /\ UNCHANGED oc_stats
       /\ UNCHANGED <<oc_cache, oc_touched>>
    \/ /\ oc_threads[th].pc = "entry = self._cache[key]"
       /\ IF ~cache_contains(oc_cache, key)
          THEN /\ Return(th, "KeyError", None)
               /\ UNCHANGED <<oc_cache, oc_stats>>
          ELSE IF is_expired(cache_entry(oc_cache, key), now)
          THEN /\ oc_cache' = cache_del(oc_cache, key)
               /\ oc_stats' = [oc_stats EXCEPT !.expirations = @ + 1,
                                               !.misses = @ + 1]
               /\ Return(th, "ok", None)
          ELSE /\ oc_threads' = [oc_threads EXCEPT
                     ![th].pc = "self._cache.move_to_end(key)",
                     ![th].value = cache_entry(oc_cache, key).value]
               /\ out' = Nothing
               /\ UNCHANGED <<oc_lock, oc_cache, oc_stats>>
       /\ UNCHANGED oc_touched
    \/ /\ oc_threads[th].pc = "self._cache.move_to_end(key)"
       /\ IF ~cache_contains(oc_cache, key)
          THEN /\ Return(th, "KeyError", None)
               /\ UNCHANGED <<oc_cache, oc_stats, oc_touched>>
          ELSE /\ oc_cache' = move_to_end(oc_cache, key)
               /\ oc_stats' = [oc_stats EXCEPT !.hits = @ + 1]
               /\ oc_touched' = touch(oc_touched, key)
               /\ Return(th, "ok", oc_threads[th].value)

\* The statements of OptimizedCache.set and OptimizedCache._evict_lru
SetStep(th, key, value) ==
    \/ /\ oc_threads[th].pc = "if key in self._cache"
       /\ oc_threads[th].op = "set"
       /\ Goto(th, IF cache_contains(oc_cache, key)
                   THEN "self._cache[key] = CacheEntry(value, ttl); move_to_end"
                   ELSE "while len(self._cache) >= self.max_size")
       /\ UNCHANGED <<oc_cache, oc_stats, oc_touched>>
    \/ /\ oc_threads[th].pc
             = "self._cache[key] = CacheEntry(value, ttl); move_to_end"
       /\ oc_cache' = move_to_end(cache_assign(oc_cache, key, value, now), key)
       /\ oc_touched' = touch(oc_touched, key)
       /\ Return(th, "ok", None)
       /\ UNCHANGED oc_stats
    \/ /\ oc_threads[th].pc = "while len(self._cache) >= self.max_size"
       /\ Goto(th, IF Len(oc_cache) >= oc_max_size[1]
                   THEN "self._evict_lru()"
                   ELSE "self._cache[key] = CacheEntry(value, ttl)")
       /\ UNCHANGED <<oc_cache, oc_stats, oc_touched>>
    \/ /\ oc_threads[th].pc = "self._evict_lru()"
       /\ IF oc_cache # <<>>
          THEN /\ oc_cache' = Tail(oc_cache)
               /\ oc_stats' = [oc_stats EXCEPT !.evictions = @ + 1]
          ELSE UNCHANGED <<oc_cache, oc_stats>>
       /\ Goto(th, "while len(self._cache) >= self.max_size")
       /\ UNCHANGED oc_touched
    \/ /\ oc_threads[th].pc = "self._cache[key] = CacheEntry(value, ttl)"
       /\ oc_cache' = cache_assign(oc_cache, key, value, now)
       /\ oc_touched' = touch(oc_touched, key)
       /\ Return(th, "ok", None)
       /\ UNCHANGED oc_stats

\* The statements of OptimizedCache.invalidate
InvalidateStep(th, key) ==
    \/ /\ oc_threads[th].pc = "if key in self._cache"
       /\ oc_threads[th].op = "invalidate"
       /\ IF cache_contains(oc_cache, key)
          THEN Goto(th, "del self._cache[key]")
          ELSE Return(th, "ok", FALSE)
       /\ UNCHANGED <<oc_cache, oc_stats, oc_touched>>
    \/ /\ oc_threads[th].pc = "del self._cache[key]"
       /\ IF cache_contains(oc_cache, key)
          THEN /\ oc_cache' = cache_del(oc_cache, key)
               /\ Return(th, "ok", TRUE)
          ELSE /\ Return(th, "KeyError", None)
               /\ UNCHANGED oc_cache
       /\ UNCHANGED <<oc_stats, oc_touched>>

\* The statements of OptimizedCache.clear
ClearStep(th) ==
    /\ oc_threads[th].pc = "self._cache.clear()"
    /\ oc_cache' = <<>>
    /\ oc_stats' = NoStats
    /\ Return(th, "ok", None)
    /\ UNCHANGED oc_touched

\* The statements of OptimizedCache.cleanup_expired
CleanupStep(th) ==
    \/ /\ oc_threads[th].pc = "for key, entry in self._cache.items()"
       /\ oc_threads' = [oc_threads EXCEPT
             ![th].pc = "for key in expired_keys",
             ![th].expired_keys =
                 cache_keys(SelectSeq(oc_cache,
                                      LAMBDA e : is_expired(e, now)))]
       /\ out' = Nothing
       /\ UNCHANGED <<oc_lock, oc_cache, oc_stats, oc_touched>>
    \/ /\ oc_threads[th].pc = "for key in expired_keys"
       /\ \E expired_keys \in {oc_threads[th].expired_keys} :
             IF \A i \in 1..Len(expired_keys) :
                    cache_contains(oc_cache, expired_keys[i])
             THEN /\ oc_cache' = SelectSeq(oc_cache, LAMBDA e :
                          \A i \in 1..Len(expired_keys) :
                              expired_keys[i] # e.key)
                  /\ oc_stats' = [oc_stats EXCEPT !.expirations =
                                     @ + Len(expired_keys)]
                  /\ Return(th, "ok", Len(expired_keys))
             ELSE /\ Return(th, "KeyError", None)
                  /\ UNCHANGED <<oc_cache, oc_stats>>
       /\ UNCHANGED oc_touched

\* A thread executes the next statement of its call.
Step(th) ==
    /\ alive
    /\ oc_threads[th].pc # "idle"
    /\ \/ Enter(th)
       \/ GetStep(th, oc_threads[th].key)
       \/ SetStep(th, oc_threads[th].key, oc_threads[th].value)
       \/ InvalidateStep(th, oc_threads[th].key)
       \/ ClearStep(th)
       \/ CleanupStep(th)
    /\ UNCHANGED <<oc_max_size, oc_calls, alive, pending>>
    /\ UNCHANGED ixvars
    /\ UNCHANGED tmvars
    /\ UNCHANGED znvars
    /\ UNCHANGED gnvars

\* The methods threads call and the arguments they pass.
CacheMethods == {"get", "set", "invalidate", "clear", "cleanup_expired"}

Calls ==
    {<<op, key, value>> \in CacheMethods \X {"k1", "k2"} \X {"v"} :
        op \in {"clear", "cleanup_expired"} => key = "k1"}

\* The sizes callers configure, the keys and values they use and the
\* instants at which they act.
CacheSizes == {0, 1, 2}

CacheKeys == {"k1", "k2", "k3"}

CacheValues == {"v", "w"}

CacheInstants == {1, MappingCacheTtl + 1}

\* The zones the index and the resolver use.
RequiredZones == {"raw", "stage", "core", "curated"}

\* What Zones.json may say about one zone: nothing, all four fields, or one
\* of targeName, displayName and localFolderName empty.
ZoneVariants(name) ==
    {<<>>,
     <<Zone(name, "t", "d", "f")>>,
     <<Zone(name, "", "d", "f")>>,
     <<Zone(name, "t", "", "f")>>,
     <<Zone(name, "t", "d", "")>>}

\* The Zones documents a solution may hold; the stage zone may also come
\* with an empty name.
ZonesDocuments ==
    {raw \o stage \o core \o curated :
        raw \in {<<>>, <<Zone("raw", "t", "d", "f")>>},
        stage \in ZoneVariants("stage") \cup {<<Zone("", "t", "d", "f")>>},
        core \in ZoneVariants("core"),
        curated \in {<<>>, <<Zone("curated", "t", "d", "f")>>}}

\* A TypeMappingEngine is constructed over a solution whose DataSources.json
\* holds doc.
NewEngine(doc) ==
    /\ alive
    /\ sources' = doc
    /\ out' = Nothing
    /\ UNCHANGED <<mapping_cache, ds_errors, now, alive>>
    /\ UNCHANGED ixvars
    /\ UNCHANGED pending
    /\ UNCHANGED latervars

\* A caller resolves a source type with the current engine.
ResolveType(source_data_source_name, source_type) ==
    /\ alive
    /\ sources # NoEngine
    /\ \E r \in {resolve_type_mapping(sources, mapping_cache,
                                      source_data_source_name, source_type,
                                      now)} :
           /\ out' = Outcome("resolve_type_mapping",
                             <<source_data_source_name, source_type>>,
                             r.kind, r.entry, <<>>)
           /\ mapping_cache' = r.cache
           /\ ds_errors' = ds_errors + r.errs
    /\ ds_errors' <= MaxErrors
    /\ UNCHANGED <<sources, now, alive>>
    /\ UNCHANGED ixvars
    /\ UNCHANGED pending
    /\ UNCHANGED latervars

\* A caller asks the DataSourceFactory of the current engine for the
\* override of a source type.
GetTargetType(source_name, source_type) ==
    /\ alive
    /\ sources # NoEngine
    /\ \E r \in {get_datasource_target_type(sources, mapping_cache,
                                            source_name, source_type, now)} :
           /\ out' = Outcome("get_datasource_target_type",
                             <<source_name, source_type>>, "ok",
                             <<r.value>>, <<>>)
           /\ mapping_cache' = r.cache
           /\ ds_errors' = ds_errors + r.errs
    /\ ds_errors' <= MaxFactoryErrors
    /\ UNCHANGED <<sources, now, alive>>
    /\ UNCHANGED ixvars
    /\ UNCHANGED pending
    /\ UNCHANGED latervars

\* A caller maps a column with the current engine.
CreateAttributeMapping(source_data_source_name, source_type, nullable, char_len, precision, scale) ==
    /\ alive
    /\ sources # NoEngine
    /\ \E r \in {create_attribute_mapping(sources, mapping_cache,
                                          source_data_source_name, source_type,
                                          nullable, char_len, precision, scale,
                                          now)} :
           /\ out' = Outcome("create_attribute_mapping",
                             <<source_data_source_name, source_type, nullable,
                               char_len, precision, scale>>,
                             r.kind, r.entry, <<>>)
           /\ mapping_cache' = r.cache
           /\ ds_errors' = ds_errors + r.errs
    /\ ds_errors' <= MaxErrors
    /\ UNCHANGED <<sources, now, alive>>
    /\ UNCHANGED ixvars
    /\ UNCHANGED pending
    /\ UNCHANGED latervars

\* DataSourceFactory.clear_mapping_cache
ClearMappingCache ==
    /\ alive
    /\ mapping_cache' = <<>>
    /\ out' = Nothing
    /\ UNCHANGED <<sources, ds_errors, now, alive>>
    /\ UNCHANGED ixvars
    /\ UNCHANGED pending
    /\ UNCHANGED latervars

\* Time passes until the instant t.
Tick(t) ==
    /\ t > now
    /\ now' = t
    /\ out' = Nothing
    /\ UNCHANGED <<sources, mapping_cache, ds_errors, alive>>
    /\ UNCHANGED ixvars
    /\ UNCHANGED pending
    /\ UNCHANGED latervars

\* Time passes between two calls.
TickBetweenCalls(t) ==
    /\ \A th \in Threads : oc_threads[th].pc \in {"idle", "with self._lock"}
    /\ Tick(t)

\* The (data source, source type) pairs callers ask for.
Requests ==
    {<<SourceA, Varchar>>, <<SourceA, Wide>>, <<SourceA, ColonVarchar>>,
     <<SourceAB, Varchar>>, <<SourceZ, Varchar>>}

\* The char_len, precision and scale a column may supply.
ColumnSizes ==
    {<< <<>>, <<>>, <<>> >>, << <<10>>, <<>>, <<>> >>,
     << <<>>, <<5>>, <<2>> >>, << <<10>>, <<5>>, <<2>> >>}

\* The instants at which callers act: the start, a second later, and the
\* two instants around the end of the lifetime of an entry cached at the
\* start.
Instants == {0, 1, MappingCacheTtl, MappingCacheTtl + 1}

\* The patterns callers pass to get_locator, and those they pass to
\* lookup_entity.
StageP == <<"/", "s", "t", "a", "g", "e", "/", "a", "/", "b", "/", "p">>

CoreP == <<"/", "c", "o", "r", "e", "/", "a", "/", "b", "/", "p">>

Patterns ==
    {StageP,
     <<"/", "S", "t", "a", "g", "e", "/", "A", "/", "b", "/", "P">>,
     CoreP,
     Tail(StageP),
     Tail(CoreP),
     StageP \o <<"x">>,
     <<"/", "s", "t", "a", "g", "e", "/", "a", "/", "x", "/", "p">>,
     StageP \o <<"/", "x">>,
     <<"/">> \o StageP,
     <<"/", "/", "a", "/", "b", "/", "p">>,
     <<"/", "s", "t", "a", "g", "e">>,
     <<"|", "s", "t", "a", "g", "e", "|", "a", "|", "b", "|", "p">>,
     <<"/">>}

LookupPatterns ==
    {StageP,
     <<"/", "S", "t", "a", "g", "e", "/", "A", "/", "b", "/", "P">>,
     Tail(StageP),
     Tail(CoreP),
     StageP \o <<"x">>,
     <<"/", "/", "a", "/", "b", "/", "p">>,
     <<"/", "s", "t", "a", "g", "e">>,
     <<"|", "s", "t", "a", "g", "e", "|", "a", "|", "b", "|", "p">>}

Next ==
    \/ \E path \in Paths : \E doc \in Documents(path) : WriteFile(path, doc)
    \/ \E path \in Paths : DeleteFile(path)
    \/ StartProcess
    \/ \E full_index_scan \in BOOLEAN : validate_index(full_index_scan)

Spec == Init /\ [][Next]_vars

\* The index, as full builds leave it, with the callers that resolve
\* locators against it.
NextResolve ==
    \/ \E path \in Paths : \E doc \in Documents(path) : WriteFile(path, doc)
    \/ \E path \in Paths : DeleteFile(path)
    \/ StartProcess
    \/ validate_index(TRUE)
    \/ \E regex \in Patterns : GetLocator(regex)
    \/ \E locator \in LookupPatterns : LookupEntity(locator)

SpecResolve == Init /\ [][NextResolve]_vars

\* The type mapping engine with its callers.
NextTypes ==
    \/ StartProcess
    \/ \E doc \in SourcesDocuments : NewEngine(doc)
    \/ \E req \in Requests : ResolveType(req[1], req[2])
    \/ ClearMappingCache
    \/ \E t \in Instants : Tick(t)

SpecTypes == Init /\ [][NextTypes]_vars

\* The index build with the write of index.json in its steps.
NextPersist ==
    \/ \E path \in Paths : \E doc \in Documents(path) : WriteFile(path, doc)
    \/ \E path \in Paths : DeleteFile(path)
    \/ StartProcess
    \/ \E full_index_scan \in BOOLEAN : BeginValidateIndex(full_index_scan)
    \/ json_dump
    \/ json_dump_raises
    \/ Interrupt

SpecPersist == Init /\ [][NextPersist]_vars

\* The command line: runs of generate, one process each, over the entity
\* files as editors leave them.
GenerateActions == {"validate_index", "generate_template", "refresh_generate"}

NextGenerate ==
    \/ \E path \in Paths : \E doc \in Documents(path) : WriteFile(path, doc)
    \/ \E path \in Paths : DeleteFile(path)
    \/ StartProcess
    \/ \E action \in GenerateActions : Generate(action)
    \/ PerformInitialChecks
    \/ \E full_index_scan \in BOOLEAN : GenerateValidateIndex(full_index_scan)
    \/ GenerateTemplate
    \/ Return_generate

SpecGenerate == Init /\ [][NextGenerate]_vars

\* The zone registry with the callers that construct a Model and ask it for
\* zone folders.
NextZones ==
    \/ StartProcess
    \/ \E doc \in ZonesDocuments : NewModel(doc)
    \/ \E zone_name \in RequiredZones : GetZonePath(zone_name)

SpecZones == Init /\ [][NextZones]_vars

\* The names callers look up in the two registries.
ZoneNames == RequiredZones \cup {"NonExistentZone"}

DataSourceTypeNames == {"SqlDataSource", "NonExistentType"}

\* The two registries with the callers that construct them and look names
\* up in them.
NextFactories ==
    \/ StartProcess
    \/ \E doc \in ZonesDocuments : NewZonesFactory(doc)
    \/ \E zone_name \in ZoneNames : GetZone(zone_name)
    \/ NewDataSourceTypesFactory
    \/ \E type_name \in DataSourceTypeNames : GetDataSourceType(type_name)

SpecFactories == Init /\ [][NextFactories]_vars

\* One OptimizedCache with the calls of one caller after the other.
NextCache ==
    \/ StartProcess
    \/ \E max_size \in CacheSizes : NewCache(max_size)
    \/ \E key \in CacheKeys : CacheGet(key)
    \/ \E key \in CacheKeys : \E value \in CacheValues : CacheSet(key, value)
    \/ \E key \in CacheKeys : CacheInvalidate(key)
    \/ CacheClear
    \/ CacheCleanupExpired
    \/ \E t \in CacheInstants : Tick(t)

SpecCache == Init /\ [][NextCache]_vars

\* One OptimizedCache with the calls of threads that run side by side.
NextThreads ==
    \/ StartProcess
    \/ \E max_size \in CacheSizes : NewCache(max_size)
    \/ \E th \in Threads : \E c \in Calls : Call(th, c[1], c[2], c[3])
    \/ \E th \in Threads : Step(th)
    \/ \E t \in CacheInstants : TickBetweenCalls(t)

SpecThreads == Init /\ [][NextThreads]_vars

\* The same, with every thread that can execute its next statement
\* executing it in the end.
SpecThreadsFair ==
    Init /\ [][NextThreads]_vars /\ \A th \in Threads : WF_vars(Step(th))

\* The DataSourceFactory instances of one process, which share the mapping
\* memo, with their callers.
NextMemo ==
    \/ StartProcess
    \/ \E doc \in SourcesDocuments : NewEngine(doc)
    \/ \E req \in Requests : GetTargetType(req[1], req[2])
    \/ ClearMappingCache
    \/ \E t \in Instants : Tick(t)

SpecMemo == Init /\ [][NextMemo]_vars

\* The schema-version guard with its callers.
NextSchema ==
    \/ StartProcess
    \/ \E entity_json \in SchemaDocuments : DetectSchema(entity_json)

SpecSchema == Init /\ [][NextSchema]_vars

\* The engine with the callers that map columns.
NextAttributes ==
    \/ StartProcess
    \/ \E doc \in SourcesDocuments : NewEngine(doc)
    \/ \E req \in Requests : \E nullable \in BOOLEAN : \E size \in ColumnSizes :
          CreateAttributeMapping(req[1], req[2], nullable,
                                 size[1], size[2], size[3])
    \/ ClearMappingCache

SpecAttributes == Init /\ [][NextAttributes]_vars

----------------------------------------------------------------------------
(* Properties of the index *)

Persisted == AllEntries(index_file.idx)

\* The index a validate_index call collects before it checks for duplicates.
CollectedIndex(full_index_scan) ==
    IF full_index_scan \/ ~index_file.exists
    THEN [rawIndex |-> get_index_entry(files, "rawIndex").entry,
          stageIndex |-> get_index_entry(files, "stageIndex").entry,
          coreIndex |-> get_index_entry(files, "coreIndex").entry,
          curatedIndex |-> get_index_entry(files, "curatedIndex").entry]
    ELSE get_refresh_index(files, newer, index_file.idx).index

SameLocatorTwice(idx) ==
    \E i, j \in 1..Len(AllEntries(idx)) :
        i < j /\ AllEntries(idx)[i].locator = AllEntries(idx)[j].locator

\* C1: in every index that a full build or a refresh persisted, no two
\* entries of the four collections have locators that are equal when
\* compared case-insensitively.
C1_NoTwoLocatorsEqualIgnoringCase ==
    index_file.exists =>
        \A i, j \in 1..Len(Persisted) :
            i < j => lower(Persisted[i].locator) # lower(Persisted[j].locator)

\* C2: after a refresh the persisted index has no entry whose absPath did
\* not exist when the refresh ran.
C2_RefreshDropsEveryDeletedFile ==
    (out.op = "validate_index" /\ out.kind = "refreshed") =>
        \A i \in 1..Len(Persisted) : exists(files, Persisted[i].absPath)

\* C3: a refresh that follows a refresh, with no change of the files in
\* between, leaves the index as the first one left it.
C3_SecondRefreshChangesNothing ==
    [][(/\ out.op = "validate_index"
        /\ out.kind \in {"refreshed", "refresh failed"}
        /\ out'.op = "validate_index"
        /\ out'.kind \in {"refreshed", "refresh failed"})
       => index_file' = index_file]_vars

\* C4: when the entries a full build or a refresh collected hold the same
\* locator twice, the index file after the operation is the index file
\* before it.
C4_DuplicateLeavesIndexFileAlone ==
    [][(/\ out'.op = "validate_index"
        /\ SameLocatorTwice(CollectedIndex(out'.arg[1])))
       => index_file' = index_file]_vars

\* A build or refresh that found a duplicate while an index file was there.
C4_Witness ==
    /\ out.op = "validate_index"
    /\ out.errs # <<>>
    /\ out.errs[1].reason = "duplicate locator"
    /\ index_file.exists
    /\ Len(Persisted) > 0

----------------------------------------------------------------------------
(* Properties of the schema-version guard in the index *)

\* A legacy document in the words of the specification: its type is one of
\* the four deprecated zone literals, or it has both top-level keys function
\* and entity and its type is not "entity".
IsLegacySchema(doc) ==
    \/ doc.type = "raw" \/ doc.type = "stage"
    \/ doc.type = "core" \/ doc.type = "curated"
    \/ (doc.hasFunction /\ doc.hasEntity /\ ~(doc.type = "entity"))

\* C15: index.json is never partially written; while a build or refresh
\* persists, and after it failed or was interrupted, the file holds the
\* complete previous index or the complete new one.
C15_IndexFileNeverPartial ==
    /\ index_file.complete
    /\ pending # <<>> =>
          index_file \in {pending[1].previous, IndexFile(pending[1].idx)}

\* C18: detect_v1_schema returns true for a document exactly when the
\* document is legacy in the words of the specification.
C18_GuardMatchesItsDefinition ==
    out.op = "detect_v1_schema" =>
        (out.kind = "True") = IsLegacySchema(out.arg)

\* A document without a type that has both keys was classified as legacy.
C18_Witness ==
    /\ out.op = "detect_v1_schema"
    /\ out.arg.type = ""
    /\ out.arg.hasFunction /\ out.arg.hasEntity
    /\ out.kind = "True"

\* The paths that hold a parseable document that is not legacy.
ValidPaths ==
    {p \in Paths : files[p].kind = "json" /\ ~IsLegacySchema(files[p])}

\* The call took the branch of validate_index that scans all zone folders.
FullScanStep == out'.op = "validate_index" /\ (out'.arg[1] \/ ~index_file.exists)

\* C11: a full build puts no legacy document into the index, and a build
\* over parseable files whose non-legacy documents have distinct locators,
\* started with no error recorded, generates the index whether or not legacy
\* documents are present.
C11_FullBuildSkipsLegacy ==
    [][FullScanStep =>
         /\ (out'.kind = "generated") =>
               \A i \in 1..Len(AllEntries(index_file'.idx)) :
                   AllEntries(index_file'.idx)[i].absPath \in ValidPaths
         /\ (/\ errors = 0
             /\ \A p \in Paths : files[p].kind # "bad"
             /\ \A p, q \in ValidPaths :
                   p # q => UnifiedLocator(p, files[p]) # UnifiedLocator(q, files[q]))
               => out'.kind = "generated"]_vars

\* A full build generated a non-empty index while a legacy document was in
\* a zone folder.
C11_Witness ==
    /\ out.op = "validate_index"
    /\ out.kind = "generated"
    /\ \E p \in Paths : files[p].kind = "json" /\ IsLegacySchema(files[p])
    /\ Len(Persisted) > 0

\* C12: after a refresh no entry of the persisted index is backed by a file
\* whose document is legacy.
C12_RefreshKeepsNoLegacy ==
    (out.op = "validate_index" /\ out.kind = "refreshed") =>
        \A i \in 1..Len(Persisted) :
            ~(/\ files[Persisted[i].absPath].kind = "json"
              /\ IsLegacySchema(files[Persisted[i].absPath]))

\* C13: a full build over one unparseable file and otherwise valid documents
\* with distinct locators, started with no error recorded, persists an index
\* with an entry for every valid document and none for the unparseable file,
\* and records the parse error with its path.
C13_FullBuildToleratesBadFile ==
    [][(/\ FullScanStep
        /\ errors = 0
        /\ Cardinality({p \in Paths : files[p].kind = "bad"}) = 1
        /\ \A p \in Paths : files[p].kind = "json" => p \in ValidPaths
        /\ \A p, q \in ValidPaths :
              p # q => UnifiedLocator(p, files[p]) # UnifiedLocator(q, files[q]))
       => /\ index_file'.exists
          /\ {AllEntries(index_file'.idx)[i].absPath :
                 i \in 1..Len(AllEntries(index_file'.idx))} = ValidPaths
          /\ \E i \in 1..Len(out'.errs) :
                 /\ out'.errs[i].type = "JsonFileParseException"
                 /\ files[out'.errs[i].file].kind = "bad"]_vars

\* The paths of the collected entries that carry the locator of the
\* duplicate error.
CollidingPaths ==
    {AllEntries(CollectedIndex(out.arg[1]))[i].absPath :
        i \in {j \in 1..Len(AllEntries(CollectedIndex(out.arg[1]))) :
                 AllEntries(CollectedIndex(out.arg[1]))[j].locator
                     = out.errs[1].locator}}

\* C14: when a full build or a refresh finds the same locator twice,
\* validate_index does not return normally, and its error names the file
\* paths of both colliding entries.
C14_DuplicateIsFatalAndNamesBoth ==
    (/\ out.op = "validate_index"
     /\ out.errs # <<>>
     /\ out.errs[1].reason = "duplicate locator")
        => /\ out.kind = "sys.exit"
           /\ CollidingPaths \subseteq {out.errs[1].file}

----------------------------------------------------------------------------
(* Properties of locator resolution *)

\* The pieces of s between the slashes.
RECURSIVE split_slash(_)
split_slash(s) ==
    IF s = <<>> THEN << <<>> >>
    ELSE LET r == split_slash(Tail(s))
         IN  IF Head(s) = "/" THEN << <<>> >> \o r
             ELSE << <<Head(s)>> \o r[1] >> \o Tail(r)

\* A leading slash followed by exactly four non-empty segments.
FourSegments(p) ==
    /\ startswith(p, <<"/">>)
    /\ Len(split_slash(Tail(p))) = 4
    /\ \A i \in 1..4 : split_slash(Tail(p))[i] # <<>>

\* Positions of the persisted entries whose locator is p up to letter case.
MatchesOf(p) ==
    {i \in 1..Len(Persisted) : lower(Persisted[i].locator) = lower(p)}

\* C5: get_locator of a pattern that is, up to letter case, the locator of
\* exactly one entry returns that entry; get_locator of a well-formed pattern
\* that is no entry's locator up to letter case raises LocatorNotFound.
C5_ResolveIsExactUpToCase ==
    (out.op = "get_locator" /\ index_file.exists) =>
        /\ Cardinality(MatchesOf(out.arg)) = 1 =>
              /\ out.kind = "ok"
              /\ out.entry = <<Persisted[CHOOSE i \in MatchesOf(out.arg) : TRUE]>>
        /\ (FourSegments(out.arg) /\ MatchesOf(out.arg) = {}) =>
              out.kind = "LocatorNotFoundException"

\* A pattern resolved to an entry whose locator is written in another case.
C5_Witness ==
    /\ out.op = "get_locator"
    /\ out.kind = "ok"
    /\ out.entry[1].locator # out.arg
    /\ Len(Persisted) > 1

\* The pattern Model.get_locator receives from the operation.
PassedPattern ==
    IF out.op = "lookup_entity" /\ ~startswith(out.arg, <<"/">>)
    THEN <<"/">> \o out.arg ELSE out.arg

\* C6: get_locator, and lookup_entity through it, raise InvalidLocator for
\* every pattern that is not a leading slash followed by exactly four
\* non-empty segments, whatever the index holds.
C6_MalformedPatternIsInvalid ==
    (/\ out.op \in {"get_locator", "lookup_entity"}
     /\ index_file.exists
     /\ ~FourSegments(PassedPattern))
        => out.kind = "InvalidLocatorException"

\* C21: get_locator("/") against an index that holds two or more entries
\* raises MultipleLocatorsFound.
C21_SlashAloneFindsMultiple ==
    (/\ out.op = "get_locator"
     /\ out.arg = <<"/">>
     /\ index_file.exists
     /\ Len(Persisted) >= 2)
        => out.kind = "MultipleLocatorsFoundException"

LookupResult == [kind |-> out.kind, entry |-> out.entry, errs |-> out.errs]

C16_FailedRequestChangesNothing ==
    [][(/\ out'.op \in {"get_locator", "lookup_entity", "resolve_type_mapping"}
        /\ out'.kind # "ok")
       => /\ index_file' = index_file
          /\ errors' = errors
          /\ ds_errors' = ds_errors
          /\ mapping_cache' = mapping_cache]_vars

\* The path of the one persisted entry the last lookup_entity call resolved
\* its locator to, as a set.
LookedUpPaths ==
    IF Cardinality(MatchesOf(PassedPattern)) = 1
    THEN {Persisted[i].absPath : i \in MatchesOf(PassedPattern)}
    ELSE {}

\* C17: lookup_entity of a locator whose index entry is backed by a file
\* that holds a legacy document returns no entity: it raises the error that
\* names the file and asks for the migration to the unified schema.
C17_LookupRejectsLegacy ==
    (out.op = "lookup_entity" /\ index_file.exists) =>
        \A p \in LookedUpPaths :
            (files[p].kind = "json" /\ IsLegacySchema(files[p])) =>
                /\ out.kind = "ValueError"
                /\ out.entry = <<>>
                /\ out.errs = <<DeprecatedSchemaError(p)>>

\* lookup_entity resolved a locator to an entry whose file holds a legacy
\* document.
C17_Witness ==
    /\ out.op = "lookup_entity"
    /\ index_file.exists
    /\ \E p \in LookedUpPaths : files[p].kind = "json" /\ IsLegacySchema(files[p])

----------------------------------------------------------------------------
(* Properties of type mapping *)

\* The target type of the first entry of a mapping list whose sourceType is
\* s, as <<targetType>>, or <<>> when no entry has it.
FirstTarget(dataTypeMapping, s) ==
    LET ls == SelectSeq(dataTypeMapping, LAMBDA m : m.sourceType = s)
    IN  IF ls = <<>> THEN <<>> ELSE <<ls[1].targetType>>

\* The data source the last resolve_type_mapping call named, as <<item>>.
AskedSource ==
    LET ls == SelectSeq(sources, LAMBDA i : i.name = out.arg[1])
    IN  IF ls = <<>> THEN <<>> ELSE <<ls[1]>>

\* The override of the asked data source for the asked source type.
AskedOverride == FirstTarget(AskedSource[1].dataTypeMapping, out.arg[2])

\* The default of the asked data source's DataSourceType for the asked
\* source type.
AskedDefault ==
    LET ls == SelectSeq(DataSourceTypes,
                        LAMBDA i : i.name = AskedSource[1].type)
    IN  IF ls = <<>> THEN <<>>
        ELSE FirstTarget(ls[1].dataTypeMapping, out.arg[2])

\* C8: for a data source with an override s -> A whose DataSourceType has a
\* default s -> B, resolve_type_mapping succeeds through A, not through B.
C8_OverrideBeatsDefault ==
    (/\ out.op = "resolve_type_mapping"
     /\ AskedSource # <<>>
     /\ AskedOverride # <<>>
     /\ AskedDefault # <<>>)
        => /\ out.kind = "ok"
           /\ out.entry[1].token = AskedOverride[1]

\* C9: for an existing data source without an override for s whose
\* DataSourceType has a default s -> T, resolve_type_mapping succeeds
\* through T.
C9_DefaultIsTheFallback ==
    (/\ out.op = "resolve_type_mapping"
     /\ AskedSource # <<>>
     /\ AskedOverride = <<>>
     /\ AskedDefault # <<>>)
        => /\ out.kind = "ok"
           /\ out.entry[1].token = AskedDefault[1]

\* The name of the first DataTypes item whose parquetType is the token, or
\* the token when no item has it.
CanonicalName(token) ==
    LET ls == SelectSeq(DataTypes, LAMBDA i : i.parquetType = token)
    IN  IF ls = <<>> THEN token ELSE ls[1].name

\* C10: the target type resolve_type_mapping returns is the name of the
\* DataTypes item whose parquetType is the token the override/default chain
\* produced, and the token itself when no item has that parquetType.
C10_TokenBecomesCanonicalName ==
    (out.op = "resolve_type_mapping" /\ out.kind = "ok")
        => out.entry[1].target_type = CanonicalName(out.entry[1].token)

\* The target type asked for is not produced by a mapping list of the
\* current engine's documents.
AskedUnmapped ==
    \/ AskedSource = <<>>
    \/ (AskedOverride = <<>> /\ AskedDefault = <<>>)

\* C19: resolve_type_mapping raises an error and returns no mapping when the
\* data source does not exist, and when neither its override list nor the
\* default list of its DataSourceType has an entry for the source type.
C19_UnmappedTypeIsAnError ==
    (out.op = "resolve_type_mapping" /\ AskedUnmapped)
        => /\ out.kind = "ValueError"
           /\ out.entry = <<>>

\* The DataTypes item of that name declares the capability flag.
Declares(type_name, flag) ==
    \E i \in 1..Len(DataTypes) :
        DataTypes[i].name = type_name /\ DataTypes[i][flag]

\* What a DataTypeMapping may carry for its target type.
CarriesOnlyDeclared(m) ==
    /\ ~Declares(m.target_type, "hasCharLen") => m.char_len = <<>>
    /\ ~Declares(m.target_type, "hasPrecision") => m.precision = <<>>
    /\ ~Declares(m.target_type, "hasScale") => m.scale = <<>>

\* C20: the mapping create_attribute_mapping returns carries char_len,
\* precision and scale only where the DataType of the resolved target type
\* declares hasCharLen, hasPrecision and hasScale, and its attribute type is
\* unset.
C20_SizesOnlyWhereDeclared ==
    (out.op = "create_attribute_mapping" /\ out.kind = "ok")
        => /\ out.entry[1].attribute_type = None
           /\ CarriesOnlyDeclared(out.entry[1].source_data_type)
           /\ CarriesOnlyDeclared(out.entry[1].target_data_type)

----------------------------------------------------------------------------
(* Properties of the zone registry *)

\* A zone of that name is in the document with its four fields non-empty.
Configured(doc, n) ==
    \E i \in 1..Len(doc) :
        /\ doc[i].name = n
        /\ doc[i].targeName # ""
        /\ doc[i].displayName # ""
        /\ doc[i].localFolderName # ""

\* C22: constructing the Model raises when one of raw, stage, core and
\* curated is missing from the zones document or has an empty field; no
\* later lookup of a zone path on a constructed Model fails.
C22_ZonesFailAtConstruction ==
    /\ (/\ out.op = "Model"
        /\ \E n \in RequiredZones : ~Configured(out.arg, n))
           => out.kind = "ValueError"
    /\ out.op = "get_zone_path_dynamic" => out.kind = "ok"

\* C25: right after a ZonesFactory or a DataSourceTypesFactory has been
\* constructed from a valid document its errors list is empty, whatever
\* lookups failed earlier on other instances.
C25_NewFactoryHasNoErrors ==
    /\ out.op = "ZonesFactory" => zn_errors = 0
    /\ out.op = "DataSourceTypesFactory" => dst_errors = 0

----------------------------------------------------------------------------
(* Properties of OptimizedCache *)

\* The entries a cache holds, whatever their order.
Entries(cache) == {cache[i] : i \in 1..Len(cache)}

\* Of the keys the cache holds, the one callers touched longest ago.
LeastRecentlyTouched ==
    SelectSeq(oc_touched, LAMBDA k : cache_contains(oc_cache, k))[1]

\* A set call that returned, by the key it was given.
SetReturned(key) ==
    /\ out'.op = "set"
    /\ out'.kind = "ok"
    /\ out'.arg[1] = key

\* C23: the cache never holds more than max_size entries; a set of a new key
\* into a full cache evicts the entry least recently touched by set or by a
\* successful get and no other; a set of a key the cache holds evicts
\* nothing.
C23_BoundedWithLruEviction ==
    /\ [](oc_max_size # <<>> => Len(oc_cache) <= oc_max_size[1])
    /\ [][\A key \in CacheKeys : SetReturned(key) =>
            /\ cache_contains(oc_cache', key)
            /\ IF cache_contains(oc_cache, key)
               THEN Entries(cache_del(oc_cache', key))
                        = Entries(cache_del(oc_cache, key))
               ELSE IF Len(oc_cache) >= oc_max_size[1]
               THEN Entries(cache_del(oc_cache', key))
                        = Entries(cache_del(oc_cache, LeastRecentlyTouched))
               ELSE Entries(cache_del(oc_cache', key)) = Entries(oc_cache)
         ]_vars

\* A set of k3 into a full cache of two has evicted k2, which was set after
\* k1 and touched before the get of k1.
C23_Witness ==
    /\ out.op = "set"
    /\ out.arg[1] = "k3"
    /\ oc_max_size = <<2>>
    /\ cache_keys(oc_cache) = <<"k1", "k3">>
    /\ oc_touched = <<"k2", "k1", "k3">>
    /\ oc_stats.hits = 1
    /\ oc_stats.evictions = 1
    /\ oc_calls = 4

----------------------------------------------------------------------------
(* Properties of refresh against rebuild *)

\* The (locator, absPath) pairs of the entries of a zone collection.
LocatedPaths(entry) == {<<entry[i].locator, entry[i].absPath>> : i \in 1..Len(entry)}

\* C28: a successful refresh leaves in each zone collection the (locator,
\* absPath) pairs a full build over the same files would produce, and a
\* refresh succeeds whenever that full build would.
C28_RefreshEqualsRebuild ==
    [][(/\ out'.op = "validate_index"
        /\ ~out'.arg[1]
        /\ index_file.exists)
       => /\ out'.kind = "refreshed" =>
               \A z \in 1..Len(get_index_items) :
                   LocatedPaths(index_file'.idx[get_index_items[z]])
                     = LocatedPaths(ValidatedIndex(TRUE).idx[get_index_items[z]])
          /\ ValidatedIndex(TRUE).writes => out'.kind = "refreshed"]_vars

\* C29: a full build succeeds and persists the index whenever the files on
\* disk all parse and their locators are distinct, whatever errors earlier
\* operations of the process recorded.
C29_FullBuildDependsOnFilesOnly ==
    [][(/\ out'.op = "validate_index"
        /\ out'.arg[1]
        /\ \A p \in Paths : files[p].kind # "bad"
        /\ ~SameLocatorTwice(CollectedIndex(TRUE)))
       => /\ out'.kind = "generated"
          /\ index_file' = IndexFile(CollectedIndex(TRUE))]_vars

----------------------------------------------------------------------------
(* Properties of the mapping memo *)

\* What a lookup in the override list of the data source of that name in
\* the document finds for the source type, "" when it finds nothing.
UncachedTargetType(doc, source_name, source_type) ==
    LET ls == SelectSeq(doc, LAMBDA i : i.name = source_name)
    IN  IF ls = <<>> THEN ""
        ELSE IF FirstTarget(ls[1].dataTypeMapping, source_type) = <<>> THEN ""
        ELSE FirstTarget(ls[1].dataTypeMapping, source_type)[1]

\* C27: every get_datasource_target_type call returns what a lookup without
\* the memo in the override list of its own instance returns for exactly
\* that data source name and source type.
C27_MemoIsTransparent ==
    out.op = "get_datasource_target_type"
        => out.entry[1] = UncachedTargetType(sources, out.arg[1], out.arg[2])

----------------------------------------------------------------------------
(* Properties of OptimizedCache under threads *)

\* The step with which the call of a thread returns or raises.
Returns(th) ==
    /\ oc_threads[th].pc \notin {"idle", "with self._lock"}
    /\ oc_threads'[th].pc = "idle"
    /\ out'.op = oc_threads[th].op

\* C24: whatever the interleaving of the calls of several threads, every
\* call returns without an exception, and it returns and leaves the cache
\* and the counters as it would if it ran alone on the cache it found when
\* it took the lock; the cache never holds more than max_size entries.
C24_CallsAreAtomic ==
    /\ [](oc_max_size # <<>> => Len(oc_cache) <= oc_max_size[1])
    /\ [][\A th \in Threads : Returns(th) =>
            \E q \in {sequential_call(oc_threads[th].op, oc_threads[th].key,
                                       out'.arg[2],
                                       oc_threads[th].seen[1].cache,
                                       oc_threads[th].seen[1].stats,
                                       oc_max_size[1],
                                       oc_threads[th].seen[1].t)} :
                /\ out'.kind = "ok"
                /\ out'.entry = q.result
                /\ oc_cache' = q.cache
                /\ oc_stats' = q.stats
         ]_vars

\* A get of k1 has returned the value while the other thread, which called
\* invalidate for k1, waits for the lock.
C24_Witness ==
    /\ out.op = "get"
    /\ out.arg[1] = "k1"
    /\ out.entry = <<"v">>
    /\ \E th \in Threads :
          /\ oc_threads[th].pc = "with self._lock"
          /\ oc_threads[th].op = "invalidate"
          /\ oc_threads[th].key = "k1"

\* C30: every call of set returns, for every max_size >= 0 and every state
\* of the cache.
C30_SetTerminates ==
    \A th \in Threads :
        (oc_threads[th].op = "set" /\ oc_threads[th].pc # "idle")
            ~> (oc_threads[th].pc = "idle")

----------------------------------------------------------------------------
(* Properties of generate *)

\* C26: in a run of generate with the action generate_template or
\* refresh_generate, the first read of the index finds an index.json that
\* this run has brought up to date: it exists, it is whole, and no entity
\* file is newer than it.
C26_IndexCurrentAtFirstRead ==
    [][out'.op = "perform_initial_checks" /\ generating' # generating
        => /\ get_index(index_file) = "ok"
           /\ newer = {}]_vars

====
